---- MODULE Spec2Model ----
(***************************************************************************)
(* A model of the numeric core of cascadix (casport): the two-port ABCD    *)
(* algebra, the component constructors, the frequency and component-value  *)
(* sweep executors, the Monte-Carlo analyzer and the Smith-chart point      *)
(* generators.                                                             *)
(*                                                                         *)
(* Numbers.  A C++ double is modelled as fixed point: the integer n stands *)
(* for n / Scale.  Three reserved integers stand for the IEEE-754 special  *)
(* values: PInf, NInf (= -PInf) and NaN.  Finite values stay far below     *)
(* PInf.  A complex number is a record [re, im] of such doubles.           *)
(*                                                                         *)
(* Calls.  The library is a set of functions and of loops that call a     *)
(* client closure (the network builder).  A call is started from pc =     *)
(* "idle"; a loop advances one iteration per step (each iteration calls    *)
(* the builder, whose outcome is an input); the call ends in pc =          *)
(* "returned" with the value in ret, or in pc = "raised" with the C++      *)
(* exception in err and the locals destroyed.                              *)
(***************************************************************************)
EXTENDS Integers, Sequences, FiniteSets

VARIABLES
    fp,        \* what the platform yields where C++/IEEE leave the choice open
    m_config,  \* smith_chart_generator::m_config
    pc,        \* "idle" | "loop" | "returned" | "raised"
    op,        \* the function being executed
    arg,       \* its arguments
    i,         \* loop index: how many sweep values have been evaluated
    loc,       \* the loop's other locals
    out,       \* the result under construction (points / stream / results)
    ret,       \* the returned value
    err        \* the exception in flight

vars == <<fp, m_config, pc, op, arg, i, loc, out, ret, err>>

-----------------------------------------------------------------------------
(* Bounds of the model *)

\* Fixed-point resolution: 1.0 is Scale grid units.
Scale == 100

\* The largest number of sweep values / list entries of one call.
MaxPoints == 2

\* Resolution of the float grid: the float 1.0f is FloatRes units.
FloatRes == 50

\* The largest finite magnitude of the grid, in grid units.
DblMax == 30000

-----------------------------------------------------------------------------
(* IEEE-754 doubles on the fixed-point grid *)

\* Magnitudes at or above PInf are reserved for the IEEE specials.  As a double
\* does, the grid has a largest finite magnitude, DblMax units: a result beyond
\* it overflows to the infinity of its sign.  Sums of two products of grid
\* values fit the 32-bit integers.
PInf == 10^9
NInf == -PInf
NaN == PInf + PInf

IsNaN(x) == x = NaN
IsInf(x) == x = PInf \/ x = NInf
IsFinite(x) == ~IsNaN(x) /\ ~IsInf(x)

Abs(x) == IF x < 0 THEN -x ELSE x
Sgn(x) == IF x > 0 THEN 1 ELSE IF x < 0 THEN -1 ELSE 0
SignedInf(s) == IF s < 0 THEN NInf ELSE PInf

\* Integer quotient rounded toward zero.
TruncDiv(a, b) == Sgn(a) * Sgn(b) * (Abs(a) \div Abs(b))

\* Smallest integer >= a / b, for b > 0.
CeilDiv(a, b) == -((-a) \div b)

\* int: 32 bits, two's complement.
IntMax == (2^30 - 1) + 2^30
IntMin == -IntMax - 1

\* Overflow of a finite result.
dRange(x) == IF x > DblMax THEN PInf ELSE IF x < -DblMax THEN NInf ELSE x

\* Largest r with r * r <= n, by Newton's iteration downward from x >= sqrt(n).
RECURSIVE ISqrtFrom(_, _)
ISqrtFrom(n, x) ==
    LET y == (x + n \div x) \div 2
    IN  IF y >= x THEN x ELSE ISqrtFrom(n, y)
ISqrt(n, hi) == IF n = 0 THEN 0 ELSE ISqrtFrom(n, hi)

\* (n * Scale) / d rounded toward zero for integers n >= 0 and d > 0, computed
\* within 32 bits: the whole part and the fraction separately, the fraction of
\* a large d with d rounded to a multiple of Scale.
MulDivScale(n, d) ==
    LET q == n \div d
        r == n % d
        frac == IF d <= IntMax \div Scale THEN (r * Scale) \div d
                ELSE r \div (d \div Scale)
    IN  IF q > DblMax \div Scale THEN PInf
        ELSE q * Scale + (IF frac < Scale THEN frac ELSE Scale - 1)

dNeg(x) == IF IsNaN(x) THEN NaN ELSE -x

\* The sum of the two integers, specials included (no overflow: for sums of
\* products).
dAddRaw(a, b) ==
    IF IsNaN(a) \/ IsNaN(b) THEN NaN
    ELSE IF IsInf(a) THEN (IF IsInf(b) /\ b # a THEN NaN ELSE a)
    ELSE IF IsInf(b) THEN b
    ELSE a + b
dAdd(a, b) == IF IsFinite(a) /\ IsFinite(b) THEN dRange(a + b) ELSE dAddRaw(a, b)

dSub(a, b) == dAdd(a, dNeg(b))

\* The product of the two integers, specials included (no rescaling).
dMulRaw(a, b) ==
    IF IsNaN(a) \/ IsNaN(b) THEN NaN
    ELSE IF IsInf(a) \/ IsInf(b)
         THEN (IF a = 0 \/ b = 0 THEN NaN ELSE SignedInf(Sgn(a) * Sgn(b)))
    ELSE a * b

\* The quotient when the dividend or the divisor is special or zero, and
\* PInf + 1 for an ordinary quotient; a zero divisor carries the sign fp.zsign
\* (the grid has one zero, IEEE has two).
dDivSpecial(a, b) ==
    IF IsNaN(a) \/ IsNaN(b) THEN NaN
    ELSE IF IsInf(a)
         THEN (IF IsInf(b) THEN NaN
               ELSE SignedInf(Sgn(a) * (IF b = 0 THEN fp.zsign ELSE Sgn(b))))
    ELSE IF IsInf(b) THEN 0
    ELSE IF b = 0 THEN (IF a = 0 THEN NaN ELSE SignedInf(Sgn(a) * fp.zsign))
    ELSE IF a = 0 THEN 0
    ELSE PInf + 1

\* The quotient a / b as an integer.
dDivRaw(a, b) ==
    IF dDivSpecial(a, b) # PInf + 1 THEN dDivSpecial(a, b)
    ELSE dRange(TruncDiv(a, b))

\* Fixed-point product and quotient of two doubles: (a/Scale)*(b/Scale) and
\* (a/Scale)/(b/Scale), in grid units.
dMul(a, b) == dDivRaw(dMulRaw(a, b), Scale)
dDiv(a, b) ==
    IF dDivSpecial(a, b) # PInf + 1 THEN dDivSpecial(a, b)
    ELSE dRange(Sgn(a) * Sgn(b) * MulDivScale(Abs(a), Abs(b)))

\* a < b on doubles: false when either is NaN.
dLt(a, b) == ~IsNaN(a) /\ ~IsNaN(b) /\ a < b

\* a <= b on doubles: false when either is NaN.
dLe(a, b) == ~IsNaN(a) /\ ~IsNaN(b) /\ a <= b

\* a == b on doubles: false when either is NaN.
dEq(a, b) == ~IsNaN(a) /\ ~IsNaN(b) /\ a = b

\* std::sqrt
dSqrt(x) ==
    IF IsNaN(x) \/ x < 0 THEN NaN
    ELSE IF x = PInf THEN PInf
    ELSE ISqrt(x * Scale, x + Scale)

\* std::min(a, b) is (b < a) ? b : a and std::max(a, b) is (a < b) ? b : a.
StdMin(a, b) == IF dLt(b, a) THEN b ELSE a
StdMax(a, b) == IF dLt(a, b) THEN b ELSE a

-----------------------------------------------------------------------------
(* std::complex<double> *)

\* The complex operators come in pairs: opV is the operation on values, and op
\* binds its arguments to their values first (through singleton sets) and
\* then applies opV, so that an argument expression is evaluated once however
\* often the operation looks at it.  op(x, y) = opV(x, y) always.

Cx(re, im) == [re |-> re, im |-> im]
CxReal(x) == Cx(x, 0)
CxZero == Cx(0, 0)
CxOne == Cx(Scale, 0)

cAddV(x, y) == Cx(dAdd(x.re, y.re), dAdd(x.im, y.im))
cAdd(x, y) == CHOOSE r \in {cAddV(u, v) : u \in {x}, v \in {y}} : TRUE
cNegV(x) == Cx(dNeg(x.re), dNeg(x.im))
cNeg(x) == CHOOSE r \in {cNegV(u) : u \in {x}} : TRUE
cSub(x, y) == cAdd(x, cNeg(y))

\* A part of an operand as the runtime's recovery code rewrites it: an infinity
\* becomes +-1, anything else (NaN included, where asked) becomes 0.
BoxInf(v) == IF IsInf(v) THEN Sgn(v) ELSE 0
NaNToZero(v) == IF IsNaN(v) THEN 0 ELSE v

\* complex * complex, as the runtime's complex multiplication (C99 Annex G)
\* does it: the textbook product, and where that yields NaN + i NaN while an
\* operand is infinite, the recovered infinity.
cMulV(x, y) ==
    LET a == x.re  b == x.im  c == y.re  d == y.im
        xr == dSub(dMul(a, c), dMul(b, d))
        xi == dAdd(dMul(a, d), dMul(b, c))
        xinf == IsInf(a) \/ IsInf(b)
        yinf == IsInf(c) \/ IsInf(d)
        a1 == IF xinf THEN BoxInf(a) ELSE a
        b1 == IF xinf THEN BoxInf(b) ELSE b
        c1 == IF xinf THEN NaNToZero(c) ELSE c
        d1 == IF xinf THEN NaNToZero(d) ELSE d
        a2 == IF yinf THEN NaNToZero(a1) ELSE a1
        b2 == IF yinf THEN NaNToZero(b1) ELSE b1
        c2 == IF yinf THEN BoxInf(c1) ELSE c1
        d2 == IF yinf THEN BoxInf(d1) ELSE d1
    IN  \* (xr, xi) bound to their values
        CHOOSE r \in
            {IF IsNaN(pr) /\ IsNaN(pi) /\ (xinf \/ yinf)
             THEN Cx(dMulRaw(PInf, dSub(dMulRaw(a2, c2), dMulRaw(b2, d2))),
                     dMulRaw(PInf, dAdd(dMulRaw(a2, d2), dMulRaw(b2, c2))))
             ELSE Cx(pr, pi) : pr \in {xr}, pi \in {xi}} : TRUE
cMul(x, y) == CHOOSE r \in {cMulV(u, v) : u \in {x}, v \in {y}} : TRUE

\* double * complex and complex / double act on each part.
cScale(t, x) == CHOOSE r \in {Cx(dMul(s, u.re), dMul(s, u.im)) : s \in {t}, u \in {x}} : TRUE
cDivReal(x, t) == CHOOSE r \in {Cx(dDiv(u.re, s), dDiv(u.im, s)) : s \in {t}, u \in {x}} : TRUE
\* double + complex and complex - double act on the real part.
cAddReal(x, t) == CHOOSE r \in {Cx(dAdd(u.re, t), u.im) : u \in {x}} : TRUE
cSubReal(x, t) == CHOOSE r \in {Cx(dSub(u.re, t), u.im) : u \in {x}} : TRUE

\* std::abs(complex) is hypot(re, im): an infinite part wins over a NaN part.
cAbsV(x) ==
    IF IsInf(x.re) \/ IsInf(x.im) THEN PInf
    ELSE IF IsNaN(x.re) \/ IsNaN(x.im) THEN NaN
    ELSE ISqrt(x.re * x.re + x.im * x.im, Abs(x.re) + Abs(x.im))
cAbs(x) == CHOOSE r \in {cAbsV(u) : u \in {x}} : TRUE

cIsFinite(x) == IsFinite(x.re) /\ IsFinite(x.im)
cHasNaN(x) == IsNaN(x.re) \/ IsNaN(x.im)

\* complex / complex, as the runtime's complex division (C99 Annex G) does it:
\* the textbook quotient, and where that yields NaN + i NaN the recovery of the
\* infinities (a zero divisor, an infinite dividend, an infinite divisor).
cDivRecover(a, b, c, d, denom, xr, xi) ==
    IF ~(IsNaN(xr) /\ IsNaN(xi)) THEN Cx(xr, xi)
    ELSE IF denom = 0 /\ (~IsNaN(a) \/ ~IsNaN(b))
         THEN Cx(dMulRaw(SignedInf(fp.zsign), a), dMulRaw(SignedInf(fp.zsign), b))
    ELSE IF (IsInf(a) \/ IsInf(b)) /\ IsFinite(c) /\ IsFinite(d)
         THEN Cx(dMulRaw(PInf, dAdd(dMulRaw(BoxInf(a), c), dMulRaw(BoxInf(b), d))),
                 dMulRaw(PInf, dSub(dMulRaw(BoxInf(b), c), dMulRaw(BoxInf(a), d))))
    ELSE IF (IsInf(c) \/ IsInf(d)) /\ IsFinite(a) /\ IsFinite(b)
         THEN CxZero
    ELSE Cx(xr, xi)
cDivV(x, y) ==
    LET a == x.re  b == x.im  c == y.re  d == y.im
    IN  CHOOSE r \in
            {CHOOSE q \in
                {cDivRecover(a, b, c, d, denom, xr, xi) :
                    xr \in {dDiv(dAddRaw(dMulRaw(a, c), dMulRaw(b, d)), denom)},
                    xi \in {dDiv(dAddRaw(dMulRaw(b, c), dNeg(dMulRaw(a, d))), denom)}}
                : TRUE
             : denom \in {dAddRaw(dMulRaw(c, c), dMulRaw(d, d))}} : TRUE
cDiv(x, y) == CHOOSE r \in {cDivV(u, v) : u \in {x}, v \in {y}} : TRUE

\* std::sqrt(complex), the principal root: for finite z the parts
\* sqrt((|z| + re) / 2) and sqrt((|z| - re) / 2), the second with the sign
\* of im.  On the negative real axis the root takes the sign of the zero
\* imaginary part.  The non-finite cases are those of C99 csqrt.
cSqrtV(z, m) ==
    IF IsInf(z.im) THEN Cx(PInf, z.im)
    ELSE IF IsNaN(z.re) \/ IsNaN(z.im) THEN Cx(NaN, NaN)
    ELSE IF z.re = PInf THEN Cx(PInf, 0)
    ELSE IF z.re = NInf THEN Cx(0, SignedInf(IF z.im < 0 THEN -1 ELSE 1))
    ELSE Cx(dSqrt(dDivRaw(dAdd(m, z.re), 2)),
            (IF z.im < 0 \/ (z.im = 0 /\ z.re < 0 /\ fp.zsign < 0) THEN -1 ELSE 1)
                * dSqrt(dDivRaw(dSub(m, z.re), 2)))
cSqrt(x) == CHOOSE r \in {cSqrtV(z, cAbs(z)) : z \in {x}} : TRUE

-----------------------------------------------------------------------------
(* Outcome of a call: a value, or a C++ exception that unwinds the caller *)

Ok(v) == [ok |-> TRUE, val |-> v]
Throw(type, what) == [ok |-> FALSE, type |-> type, what |-> what]
None == [none |-> TRUE]

\* The exception classes the library throws: std::runtime_error where a
\* denominator vanishes, std::invalid_argument where parameters are rejected.
Singular == "runtime_error"
InvalidArgument == "invalid_argument"

\* A magnitude is below the guard 1e-20.  One grid unit is 1 / Scale, far above
\* 1e-20, so a grid magnitude is below the guard iff it is below one unit.
\* The comparison is false for NaN.
below_1e_20(m) == dLt(m, 1)

-----------------------------------------------------------------------------
(* two_port: the ABCD matrix and its analyses *)

two_port(a, b, c, d) == [a |-> a, b |-> b, c |-> c, d |-> d]

identity_two_port == two_port(CxOne, CxZero, CxZero, CxOne)

determinant(n) == cSub(cMul(n.a, n.d), cMul(n.b, n.c))

\* operator* with b_new taken from the wrong column of tp2: tp1.b * tp2.a
\* where the product has tp1.b * tp2.d
cascade_wrong_column(tp1, tp2) ==
    two_port(cAdd(cMul(tp1.a, tp2.a), cMul(tp1.b, tp2.c)),
             cAdd(cMul(tp1.a, tp2.b), cMul(tp1.b, tp2.a)),
             cAdd(cMul(tp1.c, tp2.a), cMul(tp1.d, tp2.c)),
             cAdd(cMul(tp1.c, tp2.b), cMul(tp1.d, tp2.d)))

\* operator*(tp1, tp2)
cascade(tp1, tp2) ==
    two_port(cAdd(cMul(tp1.a, tp2.a), cMul(tp1.b, tp2.c)),
             cAdd(cMul(tp1.a, tp2.b), cMul(tp1.b, tp2.d)),
             cAdd(cMul(tp1.c, tp2.a), cMul(tp1.d, tp2.c)),
             cAdd(cMul(tp1.c, tp2.b), cMul(tp1.d, tp2.d)))

\* operator*= with c_new taken from the wrong row of other: m.d * other.d
\* where the product has m.d * other.c
cascade_in_place_wrong_row(m, other) ==
    two_port(cAdd(cMul(m.a, other.a), cMul(m.b, other.c)),
             cAdd(cMul(m.a, other.b), cMul(m.b, other.d)),
             cAdd(cMul(m.c, other.a), cMul(m.d, other.d)),
             cAdd(cMul(m.c, other.b), cMul(m.d, other.d)))

\* operator*= without the four temporaries: m_abcd[0] is overwritten before
\* b_new reads it, and m_abcd[2] before d_new reads it
cascade_in_place_overwriting(m, other) ==
    two_port(cAdd(cMul(m.a, other.a), cMul(m.b, other.c)),
             cAdd(cMul(cAdd(cMul(m.a, other.a), cMul(m.b, other.c)), other.b), cMul(m.b, other.d)),
             cAdd(cMul(m.c, other.a), cMul(m.d, other.c)),
             cAdd(cMul(cAdd(cMul(m.c, other.a), cMul(m.d, other.c)), other.b), cMul(m.d, other.d)))

\* two_port::operator*=(other): the new m_abcd
cascade_in_place(m, other) ==
    two_port(cAdd(cMul(m.a, other.a), cMul(m.b, other.c)),
             cAdd(cMul(m.a, other.b), cMul(m.b, other.d)),
             cAdd(cMul(m.c, other.a), cMul(m.d, other.c)),
             cAdd(cMul(m.c, other.b), cMul(m.d, other.d)))

\* The default tolerance 1e-10 of the three predicates.  It lies above the
\* rounding unit of the arithmetic (2^-52 relative for a double, one unit on
\* the grid) and below the magnitudes of the element values: ten grid units.
DEFAULT_TOLERANCE == 10

is_reciprocal(n, tolerance) == dLt(cAbs(cSubReal(determinant(n), Scale)), tolerance)

is_symmetric(n, tolerance) == dLt(cAbs(cSub(n.a, n.d)), tolerance)

is_lossless(n, tolerance) ==
    /\ dLt(Abs(n.a.im), tolerance)
    /\ dLt(Abs(n.d.im), tolerance)
    /\ dLt(Abs(n.b.re), tolerance)
    /\ dLt(Abs(n.c.re), tolerance)
    /\ dLt(dSub(cAbs(determinant(n)), Scale), tolerance)

characteristic_impedance(n) ==
    IF ~is_symmetric(n, DEFAULT_TOLERANCE)
    THEN Throw(Singular, "Characteristic impedance only defined for symmetric networks")
    ELSE IF below_1e_20(cAbs(n.c))
    THEN Throw(Singular, "Characteristic impedance: C parameter is zero")
    ELSE Ok(cSqrt(cDiv(n.b, n.c)))

input_impedance(n, z_load) ==
    LET numerator == cAdd(cMul(n.a, z_load), n.b)
        denominator == cAdd(cMul(n.c, z_load), n.d)
    IN  IF below_1e_20(cAbs(denominator))
        THEN Throw(Singular, "Input impedance calculation: division by zero")
        ELSE Ok(cDiv(numerator, denominator))

output_impedance(n, z_source) ==
    LET numerator == cAdd(cMul(n.d, z_source), n.b)
        denominator == cAdd(cMul(n.c, z_source), n.a)
    IN  IF below_1e_20(cAbs(denominator))
        THEN Throw(Singular, "Output impedance calculation: division by zero")
        ELSE Ok(cDiv(numerator, denominator))

s_parameters(s11, s12, s21, s22) == [s11 |-> s11, s12 |-> s12, s21 |-> s21, s22 |-> s22]

\* to_s_parameters with s12 = determinant() / denominator, the factor 2.0 lost
to_s_parameters_with_s12_halved(n, b_z0, c_z0, denominator) ==
    IF below_1e_20(cAbs(denominator))
    THEN Throw(Singular, "S-parameter conversion: division by zero")
    ELSE Ok(s_parameters(
             cDiv(cSub(cSub(cAdd(n.a, b_z0), c_z0), n.d), denominator),
             cDiv(determinant(n), denominator),
             cDiv(CxReal(2 * Scale), denominator),
             cDiv(cAdd(cSub(cAdd(cNeg(n.a), b_z0), c_z0), n.d), denominator)))

\* to_s_parameters(const complex& z0), from its three locals on
to_s_parameters_with(n, b_z0, c_z0, denominator) ==
    IF below_1e_20(cAbs(denominator))
    THEN Throw(Singular, "S-parameter conversion: division by zero")
    ELSE Ok(s_parameters(
             cDiv(cSub(cSub(cAdd(n.a, b_z0), c_z0), n.d), denominator),
             cDiv(cScale(2 * Scale, determinant(n)), denominator),
             cDiv(CxReal(2 * Scale), denominator),
             cDiv(cAdd(cSub(cAdd(cNeg(n.a), b_z0), c_z0), n.d), denominator)))

\* to_s_parameters with b * z0 where the conversion has b / z0
to_s_parameters_b_times_z0(n, z0) ==
    CHOOSE r \in {to_s_parameters_with(n, b_z0, c_z0, cAdd(cAdd(cAdd(n.a, b_z0), c_z0), n.d)) :
                     b_z0 \in {cMul(n.b, z0)}, c_z0 \in {cMul(n.c, z0)}} : TRUE

\* to_s_parameters(const complex& z0)
to_s_parameters(n, z0) ==
    CHOOSE r \in {to_s_parameters_with(n, b_z0, c_z0, cAdd(cAdd(cAdd(n.a, b_z0), c_z0), n.d)) :
                     b_z0 \in {cDiv(n.b, z0)}, c_z0 \in {cMul(n.c, z0)}} : TRUE

\* to_s_parameters(double z0)
to_s_parameters_real(n, z0) == to_s_parameters(n, CxReal(z0))

\* double - complex acts on the real part.
cRealSub(t, x) == CHOOSE r \in {Cx(dSub(t, u.re), dNeg(u.im)) : u \in {x}} : TRUE

\* from_s_parameters: the four numerators and the denominator 2 S21
from_s_numerator_a(s) ==
    cAdd(cMul(cAddReal(s.s11, Scale), cRealSub(Scale, s.s22)), cMul(s.s12, s.s21))
from_s_numerator_b(s) ==
    cSub(cMul(cAddReal(s.s11, Scale), cAddReal(s.s22, Scale)), cMul(s.s12, s.s21))
from_s_numerator_c(s) ==
    cSub(cMul(cRealSub(Scale, s.s11), cRealSub(Scale, s.s22)), cMul(s.s12, s.s21))
from_s_numerator_d(s) ==
    cAdd(cMul(cRealSub(Scale, s.s11), cAddReal(s.s22, Scale)), cMul(s.s12, s.s21))
from_s_denominator(s) == cScale(2 * Scale, s.s21)

\* two_port::from_s_parameters(s_params, const complex& z0)
from_s_parameters(s_params, z0) ==
    IF below_1e_20(cAbs(s_params.s21))
    THEN Throw(Singular, "S to ABCD conversion: S21 is zero")
    ELSE Ok(two_port(
             cDiv(from_s_numerator_a(s_params), from_s_denominator(s_params)),
             cMul(z0, cDiv(from_s_numerator_b(s_params), from_s_denominator(s_params))),
             cDiv(from_s_numerator_c(s_params), cMul(from_s_denominator(s_params), z0)),
             cDiv(from_s_numerator_d(s_params), from_s_denominator(s_params))))

\* two_port::from_s_parameters(s_params, double z0)
from_s_parameters_real(s_params, z0) == from_s_parameters(s_params, CxReal(z0))

\* from_s_parameters(n.to_s_parameters(z0), z0), s being what the first
\* conversion did
s_round_trip_from(s, z0) ==
    IF ~s.ok THEN s
    ELSE CHOOSE r \in {IF t.ok THEN Ok([s |-> s.val, converted |-> t.val]) ELSE t :
                          t \in {from_s_parameters(s.val, z0)}} : TRUE
s_round_trip(n, z0) == s_round_trip_from(to_s_parameters(n, z0), z0)

z_parameters(z11, z12, z21, z22) == [z11 |-> z11, z12 |-> z12, z21 |-> z21, z22 |-> z22]

\* to_z_parameters with the guard on B, the guard of the Y conversion
to_z_parameters_guard_b(n) ==
    IF below_1e_20(cAbs(n.b))
    THEN Throw(Singular, "Z-parameter conversion: C parameter is zero")
    ELSE Ok(z_parameters(cDiv(n.a, n.c), cDiv(determinant(n), n.c),
                         cDiv(CxOne, n.c), cDiv(n.d, n.c)))

to_z_parameters(n) ==
    IF below_1e_20(cAbs(n.c))
    THEN Throw(Singular, "Z-parameter conversion: C parameter is zero")
    ELSE Ok(z_parameters(cDiv(n.a, n.c), cDiv(determinant(n), n.c),
                         cDiv(CxOne, n.c), cDiv(n.d, n.c)))

y_parameters(y11, y12, y21, y22) == [y11 |-> y11, y12 |-> y12, y21 |-> y21, y22 |-> y22]

to_y_parameters(n) ==
    IF below_1e_20(cAbs(n.b))
    THEN Throw(Singular, "Y-parameter conversion: B parameter is zero")
    ELSE Ok(y_parameters(cDiv(n.d, n.b), cDiv(cNeg(determinant(n)), n.b),
                         cDiv(CxReal(-Scale), n.b), cDiv(n.a, n.b)))

voltage_gain(n, z_load) ==
    CHOOSE r \in
        {IF below_1e_20(cAbs(denominator))
         THEN Throw(Singular, "Voltage gain calculation: division by zero")
         ELSE Ok(cDiv(CxOne, denominator)) :
            denominator \in {cAdd(n.a, cDiv(n.b, z_load))}} : TRUE

current_gain(n, z_load) ==
    LET denominator == cAdd(cMul(n.c, z_load), n.d)
    IN  IF below_1e_20(cAbs(denominator))
        THEN Throw(Singular, "Current gain calculation: division by zero")
        ELSE Ok(cDiv(CxOne, denominator))

-----------------------------------------------------------------------------
(* <cmath> on the grid *)

\* std::ceil
dCeil(x) == IF IsFinite(x) THEN CeilDiv(x, Scale) * Scale ELSE x

\* x * 0.5 (exact in binary floating point)
dHalf(x) == dDivRaw(x, 2)

\* static_cast<int>(double).  For a value no int holds (the infinities, NaN)
\* the conversion is undefined: an x86 build yields the "integer indefinite"
\* INT_MIN, a saturating build (ARM, wasm) yields INT_MAX / INT_MIN / 0.
static_cast_int(x) ==
    IF IsFinite(x) THEN TruncDiv(x, Scale)
    ELSE IF fp.cast = "indefinite" THEN IntMin
    ELSE IF x = PInf THEN IntMax
    ELSE IF x = NInf THEN IntMin
    ELSE 0

\* int - 1, wrapping at INT_MIN.
IntSub1(v) == IF v = IntMin THEN IntMax ELSE v - 1

\* static_cast<float>(double): the nearest value of the float grid, on which
\* 1.0f is FloatRes units; the specials are kept.
static_cast_float(x) ==
    IF IsFinite(x) THEN (2 * x * FloatRes + Scale) \div (2 * Scale) ELSE x

\* Physical constants.  PI is 3.14159...; the grid measures lengths in units
\* of C0 times the time unit, which makes sqrt(MU0 * EPS0) = 1 / C0 one.
PI == (314159 * Scale) \div 100000
SQRT_MU0_EPS0 == Scale

\* std::tan, an odd function: reduction of |x| to (-PI/2, PI/2] and the Pade
\* approximant (15 r - r^3) / (15 - 6 r^2).  tan(0) is exactly 0.  No other
\* double is an exact zero of tan and none is an exact pole: at a nonzero
\* multiple of PI the value is the last unit (the double nearest pi lies below
\* pi), at the grid point nearest PI/2 it is large and finite.
dTan(x) ==
    IF ~IsFinite(x) THEN NaN
    ELSE LET half == PI \div 2
             r == ((Abs(x) + half - 1) % PI) - (half - 1)
             r2 == dMul(r, r)
         IN  IF r = 0 /\ x # 0 THEN -Sgn(x)
             ELSE Sgn(x) * dDiv(15 * r - dMul(r2, r), 15 * Scale - 6 * r2)

\* std::pow(10.0, y): 10^k for the whole part k of y, times e^(f ln 10) for
\* the fractional part f, by the exponential series on f ln(10) / 4 and two
\* squarings, carried out with two more decimal digits than the grid has.
RECURSIVE TimesTen(_, _)
TimesTen(x, k) ==
    IF k = 0 THEN x
    ELSE IF k > 0 THEN TimesTen(10 * x, k - 1)
    ELSE TimesTen(x \div 10, k + 1)
dPow10(y) ==
    IF IsNaN(y) THEN NaN
    ELSE IF y = PInf THEN PInf
    ELSE IF y = NInf THEN 0
    ELSE IF y >= 3 * Scale THEN PInf
    ELSE IF y < -3 * Scale THEN 0
    ELSE LET k == y \div Scale
             f == y - k * Scale
             one == 100 * Scale
             t == (f * 2302585) \div 40000
             t2 == (t * t) \div one
             e == one + t + t2 \div 2 + ((t2 * t) \div one) \div 6
                      + ((t2 * t2) \div one) \div 24 + ((((t2 * t2) \div one) * t) \div one) \div 120
             e2 == (e * e) \div one
             e4 == (e2 * e2) \div one
         IN  dRange(TimesTen((e4 + 50) \div 100, k))

\* std::log10: -inf at 0, NaN below 0, otherwise the inverse of dPow10: the
\* decade k of x first, then the least exponent within it whose power reaches
\* x.  The grid holds the decades from 0.01 up to 1000.
Decades == -2..2
dLog10(x) ==
    IF IsNaN(x) \/ x < 0 THEN NaN
    ELSE IF x = 0 THEN NInf
    ELSE IF x = PInf THEN PInf
    ELSE LET k == CHOOSE d \in Decades :
                      TimesTen(Scale, d) <= x /\ x < TimesTen(Scale, d + 1)
         IN  CHOOSE y \in (k * Scale)..(k * Scale + Scale) :
                 x <= dPow10(y) /\ (y = k * Scale \/ dPow10(y - 1) < x)

-----------------------------------------------------------------------------
(* components.h: the component constructors.  None of them validates its
   parameters and none of them throws. *)

\* frequency_dependent_two_port: m_omega
omega(freq) == dMul(dMul(2 * Scale, PI), freq)

series_impedance(z) == two_port(CxOne, z, CxZero, CxOne)
shunt_admittance(y) == two_port(CxOne, CxZero, y, CxOne)

series_resistor(r) == series_impedance(Cx(r, 0))
series_inductor(l, freq) == two_port(CxOne, Cx(0, dMul(omega(freq), l)), CxZero, CxOne)
series_capacitor(c, freq) ==
    two_port(CxOne, Cx(0, dDiv(-Scale, dMul(omega(freq), c))), CxZero, CxOne)
shunt_resistor(r) == shunt_admittance(Cx(dDiv(Scale, r), 0))
shunt_inductor(l, freq) ==
    two_port(CxOne, CxZero, Cx(0, dDiv(-Scale, dMul(omega(freq), l))), CxOne)
shunt_capacitor(c, freq) == two_port(CxOne, CxZero, Cx(0, dMul(omega(freq), c)), CxOne)

ideal_transformer(turns_ratio) ==
    two_port(CxReal(turns_ratio), CxZero, CxZero, CxReal(dDiv(Scale, turns_ratio)))

\* beta * m_length of the four stubs
beta_l(length, freq, vf) == dMul(dDiv(dMul(omega(freq), SQRT_MU0_EPS0), vf), length)

series_open_stub(length, z0, freq, vf) ==
    two_port(CxOne, Cx(0, dDiv(dNeg(z0), dTan(beta_l(length, freq, vf)))), CxZero, CxOne)
series_short_stub(length, z0, freq, vf) ==
    two_port(CxOne, Cx(0, dMul(z0, dTan(beta_l(length, freq, vf)))), CxZero, CxOne)
shunt_open_stub(length, z0, freq, vf) ==
    two_port(CxOne, CxZero, Cx(0, dDiv(dTan(beta_l(length, freq, vf)), z0)), CxOne)
shunt_short_stub(length, z0, freq, vf) ==
    two_port(CxOne, CxZero,
             Cx(0, dDiv(-Scale, dMul(z0, dTan(beta_l(length, freq, vf))))), CxOne)

two_port_has_nan(n) == cHasNaN(n.a) \/ cHasNaN(n.b) \/ cHasNaN(n.c) \/ cHasNaN(n.d)
two_port_is_finite(n) == cIsFinite(n.a) /\ cIsFinite(n.b) /\ cIsFinite(n.c) /\ cIsFinite(n.d)

-----------------------------------------------------------------------------
(* frequency_sweep and component_sweep: enumeration of the sweep values *)

frequency_sweep(start, stop, points, type) ==
    [start_freq |-> start, stop_freq |-> stop, num_points |-> points, type |-> type]

\* (num_points - 1) as a double.  num_points is a size_t: for 0 the difference
\* wraps to 2^64 - 1, above every grid value; PInf stands for it (the loop that
\* would use the step does not run then).
size_minus_1(num_points) == IF num_points = 0 THEN PInf ELSE (num_points - 1) * Scale

\* The loop of get_frequencies / get_values: num_points values, the k-th
\* (from 0) being start + k * step, or 10^(log_start + k * log_step).
enumerate_values(start, stop, num_points, type) ==
    IF type = "LINEAR"
    THEN LET step == dDiv(dSub(stop, start), size_minus_1(num_points))
         IN  [k \in 1..num_points |-> dAdd(start, dMul((k - 1) * Scale, step))]
    ELSE LET log_start == dLog10(start)
             log_stop == dLog10(stop)
             log_step == dDiv(dSub(log_stop, log_start), size_minus_1(num_points))
         IN  [k \in 1..num_points |->
                 dPow10(dAdd(log_start, dMul((k - 1) * Scale, log_step)))]

get_frequencies(sweep) ==
    enumerate_values(sweep.start_freq, sweep.stop_freq, sweep.num_points, sweep.type)

-----------------------------------------------------------------------------
(* smith_chart_generator *)

smith_chart_config(min_sp, max_sp, edge_boost, adaptive, threshold) ==
    [min_spacing |-> min_sp, max_spacing |-> max_sp, edge_boost_factor |-> edge_boost,
     adaptive_sampling |-> adaptive, edge_threshold |-> threshold]

impedance_to_reflection(impedance, z0) ==
    cDiv(cSub(impedance, CxReal(z0)), cAdd(impedance, CxReal(z0)))

\* reflection_to_impedance with the quotient inverted: z0 (1 - gamma) / (1 + gamma)
reflection_to_impedance_inverted(reflection, z0) ==
    cDiv(cMul(CxReal(z0), Cx(dSub(Scale, reflection.re), dNeg(reflection.im))),
         cAddReal(reflection, Scale))

reflection_to_impedance(reflection, z0) ==
    cDiv(cMul(CxReal(z0), cAddReal(reflection, Scale)),
         Cx(dSub(Scale, reflection.re), dNeg(reflection.im)))

calculate_point_spacing(gamma) ==
    LET radius == cAbs(gamma)
    IN  IF dLt(radius, m_config.edge_threshold)
        THEN LET t == dDiv(radius, m_config.edge_threshold)
             IN  dSub(m_config.max_spacing,
                      dMul(t, dSub(m_config.max_spacing, m_config.min_spacing)))
        ELSE LET edge_factor == dDiv(dSub(radius, m_config.edge_threshold),
                                     dSub(Scale, m_config.edge_threshold))
             IN  dDiv(m_config.min_spacing,
                      dAdd(Scale, dMul(m_config.edge_boost_factor, edge_factor)))

\* avg_spacing of should_interpolate and calculate_interpolation_count
avg_spacing(gamma1, gamma2) ==
    dHalf(dAdd(calculate_point_spacing(gamma1), calculate_point_spacing(gamma2)))

should_interpolate(gamma1, gamma2) ==
    dLt(avg_spacing(gamma1, gamma2), cAbs(cSub(gamma2, gamma1)))

\* calculate_interpolation_count with the cap one higher; C3 must fail under it.
calculate_interpolation_count_cap21(gamma1, gamma2) ==
    LET distance == cAbs(cSub(gamma2, gamma1))
        count == IntSub1(static_cast_int(dCeil(dDiv(distance, avg_spacing(gamma1, gamma2)))))
        capped == IF 21 < count THEN 21 ELSE count
    IN  IF 0 < capped THEN capped ELSE 0

calculate_interpolation_count(gamma1, gamma2) ==
    LET distance == cAbs(cSub(gamma2, gamma1))
        count == IntSub1(static_cast_int(dCeil(dDiv(distance, avg_spacing(gamma1, gamma2)))))
        capped == IF 20 < count THEN 20 ELSE count
    IN  IF 0 < capped THEN capped ELSE 0

\* gamma1 + t * (gamma2 - gamma1) with t = double(j) / double(count + 1)
interpolated_gamma(gamma1, gamma2, j, count) ==
    cAdd(gamma1, cScale(dDiv(j * Scale, (count + 1) * Scale), cSub(gamma2, gamma1)))

\* add_point_to_vector with the imaginary part left unclamped; C1 must fail
\* under it.
add_point_to_vector_real_only(gamma, points) ==
    LET real_part == StdMax(-Scale, StdMin(Scale, gamma.re))
    IN  points \o <<static_cast_float(real_part), static_cast_float(gamma.im)>>

add_point_to_vector(gamma, points) ==
    LET real_part == StdMax(-Scale, StdMin(Scale, gamma.re))
        imag_part == StdMax(-Scale, StdMin(Scale, gamma.im))
    IN  points \o <<static_cast_float(real_part), static_cast_float(imag_part)>>

RECURSIVE interpolate_loop(_, _, _, _, _)
interpolate_loop(gamma1, gamma2, interp_count, j, points) ==
    IF j > interp_count THEN points
    ELSE interpolate_loop(gamma1, gamma2, interp_count, j + 1,
             add_point_to_vector(interpolated_gamma(gamma1, gamma2, j, interp_count), points))

interpolate_segment(gamma1, gamma2, points) ==
    interpolate_loop(gamma1, gamma2, calculate_interpolation_count(gamma1, gamma2), 1, points)

\* refine_and_add without the test of m_config.adaptive_sampling
refine_and_add_always(first_point, prev_gamma, gamma, points) ==
    add_point_to_vector(gamma,
        IF ~first_point /\ should_interpolate(prev_gamma, gamma)
        THEN interpolate_segment(prev_gamma, gamma, points)
        ELSE points)

\* One round of the refining loops of generate_sweep_points (builder mode) and
\* generate_from_s11_data, from the reflection coefficient on.
refine_and_add(first_point, prev_gamma, gamma, points) ==
    add_point_to_vector(gamma,
        IF ~first_point /\ m_config.adaptive_sampling /\ should_interpolate(prev_gamma, gamma)
        THEN interpolate_segment(prev_gamma, gamma, points)
        ELSE points)

-----------------------------------------------------------------------------
(* component_sweep and perform_component_sweep *)

component_sweep(t, start, stop, points, freq, dist) ==
    [type |-> t, value_start |-> start, value_stop |-> stop, num_points |-> points,
     frequency |-> freq, distribution |-> dist]

get_values(sweep) ==
    enumerate_values(sweep.value_start, sweep.value_stop, sweep.num_points,
                     sweep.distribution)

\* The six lumped types (TRANSMISSION_LINE is not modelled).
create_network(sweep, value) ==
    IF sweep.type = "SERIES_R" THEN series_resistor(value)
    ELSE IF sweep.type = "SERIES_L" THEN series_inductor(value, sweep.frequency)
    ELSE IF sweep.type = "SERIES_C" THEN series_capacitor(value, sweep.frequency)
    ELSE IF sweep.type = "SHUNT_R" THEN shunt_resistor(value)
    ELSE IF sweep.type = "SHUNT_L" THEN shunt_inductor(value, sweep.frequency)
    ELSE shunt_capacitor(value, sweep.frequency)

component_sweep_results(values) ==
    [values |-> values, impedances |-> <<>>, admittances |-> <<>>, s_params |-> <<>>,
     reflection_coefficients |-> <<>>]

\* component_sweep_store with every entry put in front; C5 must fail under it.
component_sweep_store_front(results, z_in, s, z0_system) ==
    LET z_norm == cDivReal(z_in, z0_system)
    IN  [results EXCEPT
            !.impedances = <<z_in>> \o @,
            !.admittances = <<cDiv(CxOne, z_in)>> \o @,
            !.s_params = <<s>> \o @,
            !.reflection_coefficients =
                <<cDiv(cSubReal(z_norm, Scale), cAddReal(z_norm, Scale))>> \o @]

\* The four push_backs of the loop body.
component_sweep_store(results, z_in, s, z0_system) ==
    LET z_norm == cDivReal(z_in, z0_system)
    IN  [results EXCEPT
            !.impedances = Append(@, z_in),
            !.admittances = Append(@, cDiv(CxOne, z_in)),
            !.s_params = Append(@, s),
            !.reflection_coefficients =
                Append(@, cDiv(cSubReal(z_norm, Scale), cAddReal(z_norm, Scale)))]

\* The loop body from the cascaded network on: the first exception, or the
\* results with one more entry in every array.
component_sweep_network(network, z0_system, z_load, results) ==
    CHOOSE r \in
        {IF ~z_in.ok THEN z_in
         ELSE IF ~s.ok THEN s
         ELSE Ok(component_sweep_store(results, z_in.val, s.val, z0_system)) :
            z_in \in {input_impedance(network, z_load)},
            s \in {to_s_parameters_real(network, z0_system)}} : TRUE

\* The body of the loop of perform_component_sweep for one value.
component_sweep_round(sweep, z0_system, cascade_before, cascade_after, z_load, value, results) ==
    CHOOSE r \in
        {component_sweep_network(network, z0_system, z_load, results) :
            network \in {cascade(cascade(cascade_before, create_network(sweep, value)),
                                 cascade_after)}} : TRUE

RECURSIVE component_sweep_loop(_, _, _, _, _, _, _)
\* After the round for the k-th value gave r: unwind, or go on with k + 1.
component_sweep_next(sweep, z0_system, cascade_before, cascade_after, z_load, k, r) ==
    IF ~r.ok THEN r
    ELSE component_sweep_loop(sweep, z0_system, cascade_before, cascade_after, z_load,
                              k + 1, r.val)

component_sweep_loop(sweep, z0_system, cascade_before, cascade_after, z_load, k, results) ==
    IF k > Len(results.values) THEN Ok(results)
    ELSE CHOOSE q \in
             {component_sweep_next(sweep, z0_system, cascade_before, cascade_after,
                                   z_load, k, r) :
                 r \in {component_sweep_round(sweep, z0_system, cascade_before,
                                              cascade_after, z_load, results.values[k],
                                              results)}} : TRUE

perform_component_sweep(sweep, z0_system, cascade_before, cascade_after, z_load) ==
    component_sweep_loop(sweep, z0_system, cascade_before, cascade_after, z_load, 1,
                         component_sweep_results(get_values(sweep)))

\* validate_component_sweep (TRANSMISSION_LINE and the default case are not
\* modelled)
validate_component_sweep(sweep) ==
    IF sweep.num_points < 2 THEN FALSE
    ELSE IF dEq(sweep.value_start, sweep.value_stop) /\ sweep.num_points > 1 THEN FALSE
    ELSE IF dLe(sweep.frequency, 0) THEN FALSE
    ELSE IF sweep.type \in {"SERIES_R", "SHUNT_R"}
         THEN ~(dLt(sweep.value_start, 0) \/ dLt(sweep.value_stop, 0))
    ELSE ~(dLe(sweep.value_start, 0) \/ dLe(sweep.value_stop, 0))

perform_component_sweep_checked(sweep, z0_system, cascade_before, cascade_after, z_load) ==
    IF ~validate_component_sweep(sweep)
    THEN Throw(InvalidArgument, "Invalid component sweep parameters")
    ELSE perform_component_sweep(sweep, z0_system, cascade_before, cascade_after, z_load)

\* sweep_results, after results.frequencies = sweep.get_frequencies()
sweep_results(frequencies) ==
    [frequencies |-> frequencies, s_params |-> <<>>, input_impedances |-> <<>>,
     output_impedances |-> <<>>]

-----------------------------------------------------------------------------
(* monte_carlo.h: component_tolerance and monte_carlo_analyzer *)

component_tolerance(t, nom, tol, dist) ==
    [type |-> t, nominal_value |-> nom, tolerance |-> tol, distribution |-> dist]

\* generate_value.  What the generator hands out is the draw: draw.u is the
\* uniform variate in [0, 1), draw.z the standard normal variate.
generate_value(comp, draw) ==
    LET min_val == dMul(comp.nominal_value, dSub(Scale, comp.tolerance))
        max_val == dMul(comp.nominal_value, dAdd(Scale, comp.tolerance))
    IN  IF comp.distribution = "UNIFORM"
        THEN dAdd(min_val, dMul(draw.u, dSub(max_val, min_val)))
        ELSE IF comp.distribution = "GAUSSIAN"
        THEN LET sigma == dDiv(dMul(comp.nominal_value, comp.tolerance), 3 * Scale)
                 val == dAdd(comp.nominal_value, dMul(draw.z, sigma))
             IN  StdMax(min_val, StdMin(max_val, val))
        ELSE IF comp.distribution = "TRIANGULAR"
        THEN IF dLt(draw.u, Scale \div 2)
             THEN dAdd(min_val, dMul(dSqrt(dMul(draw.u, 2 * Scale)),
                                     dSub(comp.nominal_value, min_val)))
             ELSE dSub(max_val, dMul(dSqrt(dMul(dSub(Scale, draw.u), 2 * Scale)),
                                     dSub(max_val, comp.nominal_value)))
        ELSE comp.nominal_value

\* monte_carlo_analyzer::create_component_network (the six lumped types)
create_component_network(type, value, freq) ==
    IF type = "SERIES_R" THEN series_resistor(value)
    ELSE IF type = "SERIES_L" THEN series_inductor(value, freq)
    ELSE IF type = "SERIES_C" THEN series_capacitor(value, freq)
    ELSE IF type = "SHUNT_R" THEN shunt_resistor(value)
    ELSE IF type = "SHUNT_L" THEN shunt_inductor(value, freq)
    ELSE shunt_capacitor(value, freq)

\* The "Build network" loop of analyze, after j components.
RECURSIVE build_network(_, _, _, _)
build_network(components, values, frequency, j) ==
    IF j = 0 THEN identity_two_port
    ELSE cascade(build_network(components, values, frequency, j - 1),
                 create_component_network(components[j].type, values[j], frequency))

\* s_parameters::vswr
vswr(s) ==
    CHOOSE r \in {dDiv(dAdd(Scale, mag_s11), dSub(Scale, mag_s11)) :
                     mag_s11 \in {cAbs(s.s11)}} : TRUE

\* monte_carlo_results after construction: the vectors empty, the complex
\* members zero, and yield_rate, a double without initializer, indeterminate
\* until it is written or read.
Uninitialized == NaN + 1
monte_carlo_results(num_samples) ==
    [num_samples |-> num_samples, component_values |-> <<>>, impedances |-> <<>>,
     s_params |-> <<>>, probabilities |-> <<>>, mean_impedance |-> CxZero,
     std_impedance |-> CxZero, yield_rate |-> Uninitialized]

\* The results as the caller reads them: an indeterminate yield_rate holds
\* whatever the memory held.
read_results(results, garbage) ==
    IF results.yield_rate = Uninitialized THEN [results EXCEPT !.yield_rate = garbage]
    ELSE results

\* The loops of calculate_statistics.
RECURSIVE sum_impedances(_, _)
sum_impedances(impedances, k) ==
    IF k = 0 THEN CxZero ELSE cAdd(sum_impedances(impedances, k - 1), impedances[k])

squared_parts(diff) == Cx(dMul(diff.re, diff.re), dMul(diff.im, diff.im))

RECURSIVE sum_squares(_, _, _)
sum_squares(impedances, mean, k) ==
    IF k = 0 THEN CxZero
    ELSE cAdd(sum_squares(impedances, mean, k - 1), squared_parts(cSub(impedances[k], mean)))

RECURSIVE pass_count(_, _)
pass_count(s_params, k) ==
    IF k = 0 THEN 0
    ELSE pass_count(s_params, k - 1) + (IF dLt(vswr(s_params[k]), 2 * Scale) THEN 1 ELSE 0)

\* calculate_statistics, from the mean on.
statistics_with_mean(results, mean) ==
    LET n == Len(results.impedances)
        variance == cDivReal(sum_squares(results.impedances, mean, n),
                             (results.num_samples - 1) * Scale)
    IN  [results EXCEPT
            !.mean_impedance = mean,
            !.std_impedance = Cx(dSqrt(variance.re), dSqrt(variance.im)),
            !.yield_rate = dDiv(100 * Scale * pass_count(results.s_params, Len(results.s_params)),
                                results.num_samples * Scale)]

calculate_statistics(results) ==
    IF Len(results.impedances) = 0 THEN results
    ELSE CHOOSE r \in
             {statistics_with_mean(results, mean) :
                 mean \in {cDivReal(sum_impedances(results.impedances,
                                                    Len(results.impedances)),
                                     results.num_samples * Scale)}} : TRUE

-----------------------------------------------------------------------------
(* smith_chart_generator_enhanced: point streams and the 2-D mesh *)

\* float arithmetic on the float grid
fMul(a, b) == dDivRaw(dMulRaw(a, b), FloatRes)
fDiv(a, b) == dDivRaw(dMulRaw(a, FloatRes), b)

\* point_stream (the rendering metadata, copied through, is left out)
point_stream == [points |-> <<>>, values |-> <<>>, timestamps |-> <<>>]

\* point_stream::add_point
add_point(stream, gamma, value, timestamp) ==
    [points |-> stream.points \o <<static_cast_float(gamma.re), static_cast_float(gamma.im)>>,
     values |-> Append(stream.values, value),
     timestamps |-> Append(stream.timestamps, timestamp)]

\* The interpolation loop of generate_frequency_sweep_stream.
RECURSIVE stream_interpolate_loop(_, _, _, _, _, _, _)
stream_interpolate_loop(prev_gamma, gamma, prev_freq, freq, interp_count, j, stream) ==
    IF j > interp_count THEN stream
    ELSE LET t == dDiv(j * Scale, (interp_count + 1) * Scale)
             freq_interp == static_cast_float(dAdd(prev_freq, dMul(t, dSub(freq, prev_freq))))
         IN  stream_interpolate_loop(prev_gamma, gamma, prev_freq, freq, interp_count, j + 1,
                 add_point(stream, interpolated_gamma(prev_gamma, gamma, j, interp_count),
                           freq_interp, 0))

\* One round of the loop of generate_frequency_sweep_stream, from the
\* reflection coefficient on.
stream_refine_and_add(first_point, prev_gamma, gamma, prev_freq, freq, stream) ==
    add_point(
        IF ~first_point /\ m_config.adaptive_sampling /\ should_interpolate(prev_gamma, gamma)
        THEN stream_interpolate_loop(prev_gamma, gamma, prev_freq, freq,
                 calculate_interpolation_count(prev_gamma, gamma), 1, stream)
        ELSE stream,
        gamma, static_cast_float(freq), 0)

\* The copy loop of generate_component_sweep_stream.
RECURSIVE component_stream_loop(_, _, _)
component_stream_loop(results, k, stream) ==
    IF k > Len(results.values) THEN stream
    ELSE component_stream_loop(results, k + 1,
             add_point(stream, results.reflection_coefficients[k],
                       static_cast_float(results.values[k]), 0))

generate_component_sweep_stream(sweep, load_impedance, z0_reference) ==
    CHOOSE r \in
        {IF ~results.ok THEN results
         ELSE Ok(component_stream_loop(results.val, 1, point_stream)) :
            results \in {perform_component_sweep(sweep, z0_reference, identity_two_port,
                                                 identity_two_port, load_impedance)}} : TRUE

\* generate_2d_mesh: the triangle indices of a rows x cols grid, two triangles
\* (i00, i01, i10), (i01, i11, i10) per cell, cells in row-major order.
\* cell_indices with the second triangle wound the other way
cell_indices_second_reversed(r, c, cols) ==
    <<r * cols + c, r * cols + (c + 1), (r + 1) * cols + c,
      r * cols + (c + 1), (r + 1) * cols + c, (r + 1) * cols + (c + 1)>>

cell_indices(r, c, cols) ==
    LET i00 == r * cols + c
        i01 == r * cols + (c + 1)
        i10 == (r + 1) * cols + c
        i11 == (r + 1) * cols + (c + 1)
    IN  <<i00, i01, i10, i01, i11, i10>>

RECURSIVE mesh_indices_loop(_, _, _, _, _)
mesh_indices_loop(rows, cols, r, c, indices) ==
    IF ~(r < rows - 1) THEN indices
    ELSE IF ~(c < cols - 1) THEN mesh_indices_loop(rows, cols, r + 1, 0, indices)
    ELSE mesh_indices_loop(rows, cols, r, c + 1, indices \o cell_indices(r, c, cols))

\* The exception classes of the standard library that the index loops reach.
LengthError == "length_error"
BadAlloc == "bad_alloc"

\* The index generation of generate_2d_mesh.  rows and cols are size_t: for 0
\* the difference rows - 1 wraps to 2^64 - 1, for which -1 stands (products
\* modulo 2^64 keep the representative).  A negative reserve count is a count
\* near 2^64, above max_size().  With rows = cols = 0 the count is 6 and both
\* loops run to 2^64 - 1, pushing indices until the allocation fails.
mesh_indices(rows, cols) ==
    IF (rows - 1) * (cols - 1) * 6 < 0 THEN Throw(LengthError, "vector::reserve")
    ELSE IF rows = 0 /\ cols = 0 THEN Throw(BadAlloc, "std::bad_alloc")
    ELSE Ok(mesh_indices_loop(rows, cols, 0, 0, <<>>))

\* With rows = 0 and cols = 1 the reserve count is 0 and the outer loop makes
\* 2^64 - 1 rounds with an empty inner loop.
mesh_indices_spin(rows, cols) == rows = 0 /\ cols = 1

mesh_2d(rows, cols) ==
    [vertices |-> <<>>, values |-> <<>>, indices |-> <<>>, rows |-> rows, cols |-> cols]

-----------------------------------------------------------------------------
(* Inputs *)

\* p percent of 1.0
Pct(p) == (p * Scale) \div 100

\* All sequences over S of length at most n.
SeqsUpTo(S, n) == UNION {[1..k -> S] : k \in 0..n}

\* Configurations of the generator: positive spacings, refinement on and off,
\* and an edge threshold of 1.0 (whose edge factor divides by zero).
Configs ==
    {smith_chart_config(Pct(4), Pct(20), Scale, TRUE, Pct(70)),
     smith_chart_config(Pct(4), Pct(20), Scale, FALSE, Pct(70)),
     smith_chart_config(Pct(4), Pct(20), 4 * Scale, TRUE, Scale)}

\* What the platform fixes: the sign of a zero divisor, and the outcome of the
\* undefined double-to-int conversions.
Platforms == [zsign : {1, -1}, cast : {"indefinite", "saturate"}]

\* Reflection coefficients handed in as S11 data: inside the unit disk, on its
\* edge, outside it, and non-finite.
Gammas ==
    {CxZero, CxOne, Cx(-Scale, 0), Cx(0, Pct(50)), Cx(-3 * Scale, 0), Cx(PInf, NaN)}

\* Impedances (in units of the reference impedance 1.0): matched, short,
\* inductive, and the degenerate ones: -z0 (reflection infinite), -z0 / 2
\* (reflection -3), negative-resistance with reactance, infinite.
Impedances ==
    {CxOne, CxZero, Cx(Pct(50), Pct(50)), Cx(-Scale, 0), Cx(-Pct(50), 0),
     Cx(-Pct(50), 2 * Scale), Cx(PInf, 0)}

Z0s == {Scale}
Loads == {CxOne, Cx(Pct(50), 0)}

\* Frequency sweeps: 0 to MaxPoints points from 1.0 to 2.0, and descriptors
\* the documentation calls invalid (equal ends, non-positive start, log from 0).
FreqSweeps ==
    {frequency_sweep(Scale, 2 * Scale, n, "LINEAR") : n \in 0..MaxPoints}
    \cup {frequency_sweep(Scale, 10 * Scale, MaxPoints, "LOG"),
          frequency_sweep(Scale, Scale, 2, "LINEAR"),
          frequency_sweep(0, Scale, 2, "LINEAR"),
          frequency_sweep(0, Scale, 2, "LOG")}

\* Networks handed in by value.
Networks ==
    {identity_two_port, series_resistor(Scale), series_resistor(-2 * Scale),
     shunt_resistor(-Scale), shunt_resistor(-Pct(50)), series_inductor(Pct(50), Scale)}

\* The client's network builders (closures over one parameter p):
\*   series_inductor        [p](f) { return series_inductor(p, f); }
\*   series_resistor_minus  [p](f) { return series_resistor(f - p); }
\*   shunt_resistor_minus   [p](f) { return shunt_resistor(f - p); }
\*   throws_from            [p](f) { if (f >= p) throw std::runtime_error(..);
\*                                   return series_resistor(f); }
Builders ==
    {[kind |-> "series_inductor", p |-> Pct(50)],
     [kind |-> "series_resistor_minus", p |-> 4 * Scale],
     [kind |-> "shunt_resistor_minus", p |-> 3 * Scale],
     [kind |-> "shunt_resistor_minus", p |-> Pct(250)],
     [kind |-> "throws_from", p |-> 2 * Scale],
     [kind |-> "throws_from", p |-> Scale]}

\* Component-value sweeps: each lumped type over 0.5 .. 1.0, a resistor over
\* negative values, and descriptors the documentation calls invalid (fewer
\* than two points, frequency 0, equal ends, log from 0).
ComponentTypes == {"SERIES_R", "SERIES_L", "SERIES_C", "SHUNT_R", "SHUNT_L", "SHUNT_C"}
ComponentSweeps ==
    {component_sweep(t, Pct(50), Scale, n, Scale, "LINEAR") :
        t \in ComponentTypes, n \in 0..MaxPoints}
    \cup {component_sweep("SERIES_R", -3 * Scale, -Scale, n, Scale, "LINEAR") :
            n \in 2..(MaxPoints + 1)}
    \cup {component_sweep("SERIES_C", Pct(50), Scale, 2, 0, "LINEAR"),
          component_sweep("SHUNT_L", Pct(50), Scale, 2, -Scale, "LINEAR"),
          component_sweep("SERIES_L", Scale, Scale, 2, Scale, "LINEAR"),
          component_sweep("SHUNT_R", 0, Scale, 2, Scale, "LOG"),
          component_sweep("SERIES_R", Pct(10), Scale, MaxPoints, Scale, "LOG")}

\* The client's two-parameter builders for the mesh:
\*   series_inductor  [](f, v) { return series_inductor(v, f); }
\*   series_resistor  [](f, v) { return series_resistor(v); }
\*   shunt_resistor   [](f, v) { return shunt_resistor(v); }
MeshBuilders == {"series_inductor", "series_resistor", "shunt_resistor"}
MeshRanges == {<<0, Scale>>, <<-3 * Scale, -Scale>>}

network_builder2(b, freq, value) ==
    IF b = "series_inductor" THEN Ok(series_inductor(value, freq))
    ELSE IF b = "series_resistor" THEN Ok(series_resistor(value))
    ELSE Ok(shunt_resistor(value))

network_builder(b, freq) ==
    IF b.kind = "series_inductor" THEN Ok(series_inductor(b.p, freq))
    ELSE IF b.kind = "series_resistor_minus" THEN Ok(series_resistor(dSub(freq, b.p)))
    ELSE IF b.kind = "shunt_resistor_minus" THEN Ok(shunt_resistor(dSub(freq, b.p)))
    ELSE IF ~IsNaN(freq) /\ b.p <= freq THEN Throw(Singular, "builder")
    ELSE Ok(series_resistor(freq))

-----------------------------------------------------------------------------
(* The state after construction *)

Init ==
    /\ fp \in Platforms
    /\ m_config \in Configs
    /\ pc = "idle"
    /\ op = "none"
    /\ arg = None
    /\ i = 0
    /\ loc = None
    /\ out = None
    /\ ret = None
    /\ err = None

\* A call starts: the arguments and the locals before the loop.
Enter(name, a, locals, result) ==
    /\ pc = "idle"
    /\ pc' = "loop"
    /\ op' = name
    /\ arg' = a
    /\ i' = 0
    /\ loc' = locals
    /\ out' = result
    /\ UNCHANGED <<fp, m_config, ret, err>>

\* The call returns v; its locals are gone.
Leave(v) ==
    /\ pc' = "returned"
    /\ ret' = v
    /\ loc' = None
    /\ out' = None
    /\ UNCHANGED <<fp, m_config, op, arg, i, err>>

\* An exception leaves the call: the stack unwinds, the locals (the result
\* under construction among them) are destroyed, the caller gets no value.
Unwind(e) ==
    /\ pc' = "raised"
    /\ err' = [type |-> e.type, what |-> e.what]
    /\ loc' = None
    /\ out' = None
    /\ UNCHANGED <<fp, m_config, op, arg, i, ret>>

\* A function without a loop over client code: entered and left in one step.
Invoke(name, a, r) ==
    /\ pc = "idle"
    /\ op' = name
    /\ arg' = a
    /\ pc' = IF r.ok THEN "returned" ELSE "raised"
    /\ ret' = IF r.ok THEN r.val ELSE None
    /\ err' = IF r.ok THEN None ELSE [type |-> r.type, what |-> r.what]
    /\ UNCHANGED <<fp, m_config, i, loc, out>>

\* One more round of the loop, with new locals and result.
Round(locals, result) ==
    /\ i' = i + 1
    /\ loc' = locals
    /\ out' = result
    /\ UNCHANGED <<fp, m_config, pc, op, arg, ret, err>>

-----------------------------------------------------------------------------
(* smith_chart_generator: the flat-vector modes *)

Call_generate_from_s11_data ==
    /\ pc = "idle"
    /\ \E data \in SeqsUpTo(Gammas, MaxPoints), z0 \in Z0s :
           Enter("generate_from_s11_data", [s11_data |-> data, z0_reference |-> z0],
                 [prev_s11 |-> CxZero, first_point |-> TRUE], <<>>)

Step_generate_from_s11_data ==
    /\ pc = "loop" /\ op = "generate_from_s11_data"
    /\ i < Len(arg.s11_data)
    /\ LET gamma == arg.s11_data[i + 1]
       IN  Round([prev_s11 |-> gamma, first_point |-> FALSE],
                 refine_and_add(loc.first_point, loc.prev_s11, gamma, out))

Return_generate_from_s11_data ==
    /\ pc = "loop" /\ op = "generate_from_s11_data"
    /\ i = Len(arg.s11_data)
    /\ Leave(out)

\* generate_monte_carlo_points, and impedances_to_smith_points which forwards
\* to it.
Call_generate_monte_carlo_points ==
    /\ pc = "idle"
    /\ \E name \in {"generate_monte_carlo_points", "impedances_to_smith_points"},
          zs \in SeqsUpTo(Impedances, MaxPoints), z0 \in Z0s :
           Enter(name, [impedances |-> zs, z0_reference |-> z0], None, <<>>)

Step_generate_monte_carlo_points ==
    /\ pc = "loop"
    /\ op \in {"generate_monte_carlo_points", "impedances_to_smith_points"}
    /\ i < Len(arg.impedances)
    /\ Round(None, add_point_to_vector(
                       impedance_to_reflection(arg.impedances[i + 1], arg.z0_reference), out))

Return_generate_monte_carlo_points ==
    /\ pc = "loop"
    /\ op \in {"generate_monte_carlo_points", "impedances_to_smith_points"}
    /\ i = Len(arg.impedances)
    /\ Leave(out)

\* generate_sweep_points(const two_port&, ...): the single-network mode.  The
\* reflection coefficient is computed once, before the loop.
Call_generate_sweep_points_network ==
    /\ pc = "idle"
    /\ \E network \in Networks, frequencies \in FreqSweeps, load \in Loads, z0 \in Z0s :
           LET z_in == input_impedance(network, load)
               a == [network |-> network, frequencies |-> frequencies,
                     load_impedance |-> load, z0_reference |-> z0]
           IN  IF z_in.ok
               THEN Enter("generate_sweep_points_network", a,
                          [freq_points |-> get_frequencies(frequencies),
                           gamma |-> impedance_to_reflection(z_in.val, z0)], <<>>)
               ELSE Invoke("generate_sweep_points_network", a, z_in)

Step_generate_sweep_points_network ==
    /\ pc = "loop" /\ op = "generate_sweep_points_network"
    /\ i < Len(loc.freq_points)
    /\ Round(loc, add_point_to_vector(loc.gamma, out))

Return_generate_sweep_points_network ==
    /\ pc = "loop" /\ op = "generate_sweep_points_network"
    /\ i = Len(loc.freq_points)
    /\ Leave(out)

\* The repository's second copy of generate_sweep_points(const two_port&, ...):
\* it does not read the sweep and adds the reflection coefficient once.
Call_generate_sweep_points_network_once ==
    /\ pc = "idle"
    /\ \E network \in Networks, frequencies \in FreqSweeps, load \in Loads, z0 \in Z0s :
           \E z_in \in {input_impedance(network, load)} :
               Invoke("generate_sweep_points_network_once",
                      [network |-> network, frequencies |-> frequencies,
                       load_impedance |-> load, z0_reference |-> z0],
                      IF z_in.ok
                      THEN Ok(add_point_to_vector(impedance_to_reflection(z_in.val, z0), <<>>))
                      ELSE z_in)

\* The whole of generate_sweep_points(const two_port&, ...) for a generator
\* with the given configuration, which the function does not read: the loop of
\* n additions of gamma.
RECURSIVE generate_sweep_points_network_loop(_, _, _)
generate_sweep_points_network_loop(gamma, n, points) ==
    IF n = 0 THEN points
    ELSE generate_sweep_points_network_loop(gamma, n - 1, add_point_to_vector(gamma, points))

generate_sweep_points_network(config, network, frequencies, load_impedance, z0_reference) ==
    generate_sweep_points_network_loop(
        impedance_to_reflection(input_impedance(network, load_impedance).val, z0_reference),
        Len(get_frequencies(frequencies)), <<>>)

\* The same for the copy of the function that adds the point once.
generate_sweep_points_network_once(config, network, frequencies, load_impedance, z0_reference) ==
    add_point_to_vector(
        impedance_to_reflection(input_impedance(network, load_impedance).val, z0_reference), <<>>)

\* The resonator of the AdaptiveSampling test, series_inductor * shunt_capacitor
\* built at one frequency (omega^2 L C = 1 for L = 1/pi, C = 1/(4 pi), f = 1),
\* and two detuned ones.
Resonators ==
    {cascade(series_inductor(l, Scale), shunt_capacitor(c, Scale)) :
        l \in {Pct(32), Pct(50)}, c \in {Pct(8), Pct(50)}}

\* TEST(SmithChartGeneratorTest, AdaptiveSampling): the two_port value handed
\* to a generator with adaptive sampling and to one without.
Call_AdaptiveSampling ==
    /\ pc = "idle"
    /\ \E network \in Resonators, frequencies \in FreqSweeps, z0 \in Z0s,
          config_adaptive \in {c \in Configs : c.adaptive_sampling},
          config_uniform \in {c \in Configs : ~c.adaptive_sampling},
          copy \in {"loop", "once"} :
           /\ input_impedance(network, CxReal(z0)).ok
           /\ Invoke("AdaptiveSampling",
                     [network |-> network, frequencies |-> frequencies, z0 |-> z0,
                      config_adaptive |-> config_adaptive, config_uniform |-> config_uniform,
                      copy |-> copy],
                     Ok(IF copy = "loop"
                        THEN [points_adaptive |-> generate_sweep_points_network(
                                  config_adaptive, network, frequencies, CxReal(z0), z0),
                              points_uniform |-> generate_sweep_points_network(
                                  config_uniform, network, frequencies, CxReal(z0), z0)]
                        ELSE [points_adaptive |-> generate_sweep_points_network_once(
                                  config_adaptive, network, frequencies, CxReal(z0), z0),
                              points_uniform |-> generate_sweep_points_network_once(
                                  config_uniform, network, frequencies, CxReal(z0), z0)]))

\* generate_sweep_points(std::function<two_port(double)>, ...): the builder
\* mode.  Each round calls the client's builder.
Call_generate_sweep_points_builder ==
    /\ pc = "idle"
    /\ \E b \in Builders, frequencies \in FreqSweeps, load \in Loads, z0 \in Z0s :
           Enter("generate_sweep_points_builder",
                 [network_builder |-> b, frequencies |-> frequencies,
                  load_impedance |-> load, z0_reference |-> z0],
                 [freq_points |-> get_frequencies(frequencies),
                  prev_gamma |-> CxZero, first_point |-> TRUE], <<>>)

Step_generate_sweep_points_builder ==
    /\ pc = "loop" /\ op = "generate_sweep_points_builder"
    /\ i < Len(loc.freq_points)
    /\ LET network == network_builder(arg.network_builder, loc.freq_points[i + 1])
           z_in == input_impedance(network.val, arg.load_impedance)
           gamma == impedance_to_reflection(z_in.val, arg.z0_reference)
       IN  IF ~network.ok THEN Unwind(network)
           ELSE IF ~z_in.ok THEN Unwind(z_in)
           ELSE Round([loc EXCEPT !.prev_gamma = gamma, !.first_point = FALSE],
                      refine_and_add(loc.first_point, loc.prev_gamma, gamma, out))

Return_generate_sweep_points_builder ==
    /\ pc = "loop" /\ op = "generate_sweep_points_builder"
    /\ i = Len(loc.freq_points)
    /\ Leave(out)

NextSmithFlat ==
    \/ Call_generate_from_s11_data
    \/ Step_generate_from_s11_data
    \/ Return_generate_from_s11_data
    \/ Call_generate_monte_carlo_points
    \/ Step_generate_monte_carlo_points
    \/ Return_generate_monte_carlo_points
    \/ Call_generate_sweep_points_network
    \/ Step_generate_sweep_points_network
    \/ Return_generate_sweep_points_network
    \/ Call_generate_sweep_points_network_once
    \/ Call_AdaptiveSampling
    \/ Call_generate_sweep_points_builder
    \/ Step_generate_sweep_points_builder
    \/ Return_generate_sweep_points_builder


-----------------------------------------------------------------------------
(* smith_chart_generator: the static conversions *)

Call_reflection_to_impedance ==
    /\ pc = "idle"
    /\ \E reflection \in Gammas, z0 \in Z0s :
           Invoke("reflection_to_impedance", [reflection |-> reflection, z0 |-> z0],
                  Ok(reflection_to_impedance(reflection, z0)))

Call_impedance_to_reflection ==
    /\ pc = "idle"
    /\ \E impedance \in Impedances, z0 \in Z0s :
           Invoke("impedance_to_reflection", [impedance |-> impedance, z0 |-> z0],
                  Ok(impedance_to_reflection(impedance, z0)))

\* Impedances taken to the reflection coefficient and back: matched, short,
\* 3 z0 and 5 + 2.5j (exact quotients for z0 = 1), j, 0.75 + 0.25j, next to
\* -z0, -z0 itself, and the high impedances 100 and 250.
RoundTripImpedances ==
    {CxOne, CxZero, CxReal(3 * Scale), Cx(5 * Scale, Pct(250)), Cx(0, Scale),
     Cx(Pct(75), Pct(25)), Cx(-Scale, 1), CxReal(-Scale),
     CxReal(100 * Scale), CxReal(250 * Scale)}

RoundTripZ0s == {Scale, Pct(50)}

\* gamma = impedance_to_reflection(z_original, z0);
\* z_recovered = reflection_to_impedance(gamma, z0)
Call_reflection_round_trip ==
    /\ pc = "idle"
    /\ \E z_original \in RoundTripImpedances, z0 \in RoundTripZ0s :
           \E gamma \in {impedance_to_reflection(z_original, z0)} :
               Invoke("reflection_round_trip", [z_original |-> z_original, z0 |-> z0],
                      Ok([gamma |-> gamma,
                          z_recovered |-> reflection_to_impedance(gamma, z0)]))

-----------------------------------------------------------------------------
(* smith_chart_generator_enhanced *)

Call_generate_frequency_sweep_stream ==
    /\ pc = "idle"
    /\ \E b \in Builders, frequencies \in FreqSweeps, load \in Loads, z0 \in Z0s :
           Enter("generate_frequency_sweep_stream",
                 [network_builder |-> b, frequencies |-> frequencies,
                  load_impedance |-> load, z0_reference |-> z0],
                 [freq_points |-> get_frequencies(frequencies),
                  prev_gamma |-> CxZero, first_point |-> TRUE], point_stream)

Step_generate_frequency_sweep_stream ==
    /\ pc = "loop" /\ op = "generate_frequency_sweep_stream"
    /\ i < Len(loc.freq_points)
    /\ LET freq == loc.freq_points[i + 1]
           network == network_builder(arg.network_builder, freq)
           z_in == input_impedance(network.val, arg.load_impedance)
           gamma == impedance_to_reflection(z_in.val, arg.z0_reference)
       IN  IF ~network.ok THEN Unwind(network)
           ELSE IF ~z_in.ok THEN Unwind(z_in)
           ELSE Round([loc EXCEPT !.prev_gamma = gamma, !.first_point = FALSE],
                      stream_refine_and_add(loc.first_point, loc.prev_gamma, gamma,
                          IF i > 0 THEN loc.freq_points[i] ELSE 0, freq, out))

Return_generate_frequency_sweep_stream ==
    /\ pc = "loop" /\ op = "generate_frequency_sweep_stream"
    /\ i = Len(loc.freq_points)
    /\ Leave(out)

Call_generate_component_sweep_stream ==
    /\ pc = "idle"
    /\ \E sweep \in ComponentSweeps, load \in Loads, z0 \in Z0s :
           Invoke("generate_component_sweep_stream",
                  [sweep |-> sweep, load_impedance |-> load, z0_reference |-> z0],
                  generate_component_sweep_stream(sweep, load, z0))

Call_generate_monte_carlo_stream ==
    /\ pc = "idle"
    /\ \E zs \in SeqsUpTo(Impedances, MaxPoints), z0 \in Z0s :
           Enter("generate_monte_carlo_stream", [impedances |-> zs, z0_reference |-> z0],
                 None, point_stream)

Step_generate_monte_carlo_stream ==
    /\ pc = "loop" /\ op = "generate_monte_carlo_stream"
    /\ i < Len(arg.impedances)
    /\ LET impedance == arg.impedances[i + 1]
       IN  Round(None, add_point(out, impedance_to_reflection(impedance, arg.z0_reference),
                                 static_cast_float(cAbs(impedance)), 0))

Return_generate_monte_carlo_stream ==
    /\ pc = "loop" /\ op = "generate_monte_carlo_stream"
    /\ i = Len(arg.impedances)
    /\ Leave(out)

Call_generate_animated_sweep ==
    /\ pc = "idle"
    /\ \E b \in Builders, frequencies \in FreqSweeps, load \in Loads, z0 \in Z0s :
           Enter("generate_animated_sweep",
                 [network_builder |-> b, frequencies |-> frequencies,
                  load_impedance |-> load, z0_reference |-> z0,
                  animation_duration_seconds |-> 2 * FloatRes],
                 [freq_points |-> get_frequencies(frequencies)], point_stream)

Step_generate_animated_sweep ==
    /\ pc = "loop" /\ op = "generate_animated_sweep"
    /\ i < Len(loc.freq_points)
    /\ LET freq == loc.freq_points[i + 1]
           network == network_builder(arg.network_builder, freq)
           z_in == input_impedance(network.val, arg.load_impedance)
           gamma == impedance_to_reflection(z_in.val, arg.z0_reference)
           t == fDiv(i * FloatRes, (Len(loc.freq_points) - 1) * FloatRes)
           timestamp == fMul(t, arg.animation_duration_seconds)
       IN  IF ~network.ok THEN Unwind(network)
           ELSE IF ~z_in.ok THEN Unwind(z_in)
           ELSE Round(loc, add_point(out, gamma, static_cast_float(freq), timestamp))

Return_generate_animated_sweep ==
    /\ pc = "loop" /\ op = "generate_animated_sweep"
    /\ i = Len(loc.freq_points)
    /\ Leave(out)

\* generate_2d_mesh: one round per vertex, freq_idx = i \div cols and
\* comp_idx = i % cols; the triangle indices are generated before returning.
Call_generate_2d_mesh ==
    /\ pc = "idle"
    /\ \E b \in MeshBuilders, n \in 0..MaxPoints, range \in MeshRanges,
          component_steps \in 0..MaxPoints, load \in Loads, z0 \in Z0s :
           LET frequencies == frequency_sweep(Scale, 2 * Scale, n, "LINEAR")
           IN  Enter("generate_2d_mesh",
                     [network_builder |-> b, frequencies |-> frequencies,
                      component_min |-> range[1], component_max |-> range[2],
                      component_steps |-> component_steps,
                      load_impedance |-> load, z0_reference |-> z0],
                     [freq_points |-> get_frequencies(frequencies)],
                     mesh_2d(frequencies.num_points, component_steps))

Step_generate_2d_mesh ==
    /\ pc = "loop" /\ op = "generate_2d_mesh"
    /\ i < Len(loc.freq_points) * arg.component_steps
    /\ LET freq == loc.freq_points[(i \div arg.component_steps) + 1]
           comp_idx == i % arg.component_steps
           t == dDiv(comp_idx * Scale, size_minus_1(arg.component_steps))
           component_value ==
               dAdd(arg.component_min, dMul(t, dSub(arg.component_max, arg.component_min)))
           network == network_builder2(arg.network_builder, freq, component_value)
           z_in == input_impedance(network.val, arg.load_impedance)
           gamma == impedance_to_reflection(z_in.val, arg.z0_reference)
       IN  IF ~network.ok THEN Unwind(network)
           ELSE IF ~z_in.ok THEN Unwind(z_in)
           ELSE Round(loc,
                    [out EXCEPT
                       !.vertices = @ \o <<static_cast_float(gamma.re),
                                           static_cast_float(gamma.im)>>,
                       !.values = Append(@, static_cast_float(component_value))])

Return_generate_2d_mesh ==
    /\ pc = "loop" /\ op = "generate_2d_mesh"
    /\ i = Len(loc.freq_points) * arg.component_steps
    /\ ~mesh_indices_spin(out.rows, out.cols)
    /\ \E indices \in {mesh_indices(out.rows, out.cols)} :
           IF indices.ok THEN Leave([out EXCEPT !.indices = indices.val])
           ELSE Unwind(indices)

\* The index loops that make 2^64 - 1 empty rounds: the call stays in them.
Spin_generate_2d_mesh ==
    /\ pc = "loop" /\ op = "generate_2d_mesh"
    /\ i = Len(loc.freq_points) * arg.component_steps
    /\ mesh_indices_spin(out.rows, out.cols)
    /\ pc' = "spinning"
    /\ UNCHANGED <<fp, m_config, op, arg, i, loc, out, ret, err>>

NextSmithEnhanced ==
    \/ Call_generate_frequency_sweep_stream
    \/ Step_generate_frequency_sweep_stream
    \/ Return_generate_frequency_sweep_stream
    \/ Call_generate_component_sweep_stream
    \/ Call_generate_monte_carlo_stream
    \/ Step_generate_monte_carlo_stream
    \/ Return_generate_monte_carlo_stream
    \/ Call_generate_animated_sweep
    \/ Step_generate_animated_sweep
    \/ Return_generate_animated_sweep
    \/ Call_generate_2d_mesh
    \/ Step_generate_2d_mesh
    \/ Return_generate_2d_mesh
    \/ Spin_generate_2d_mesh

NextSmith ==
    \/ NextSmithFlat
    \/ NextSmithEnhanced
    \/ Call_reflection_to_impedance
    \/ Call_impedance_to_reflection
    \/ Call_reflection_round_trip

SpecSmith == Init /\ [][NextSmith]_vars

-----------------------------------------------------------------------------
(* The sweep executors *)

Cascades == {identity_two_port, series_resistor(Scale)}

Call_get_frequencies ==
    /\ pc = "idle"
    /\ \E sweep \in FreqSweeps :
           Invoke("get_frequencies", [sweep |-> sweep], Ok(get_frequencies(sweep)))

Call_get_values ==
    /\ pc = "idle"
    /\ \E sweep \in ComponentSweeps :
           Invoke("get_values", [sweep |-> sweep], Ok(get_values(sweep)))

Call_perform_sweep ==
    /\ pc = "idle"
    /\ \E b \in Builders, sweep \in FreqSweeps, z0 \in Z0s, z_load \in Loads,
          z_source \in Loads :
           Enter("perform_sweep",
                 [builder |-> b, sweep |-> sweep, z0 |-> z0, z_load |-> z_load,
                  z_source |-> z_source],
                 None, sweep_results(get_frequencies(sweep)))

\* Step_perform_sweep with a handler that ends the sweep at the first exception
\* and returns the entries gathered so far; C4 must fail under it.
Step_perform_sweep_partial ==
    /\ pc = "loop" /\ op = "perform_sweep"
    /\ i < Len(out.frequencies)
    /\ \E network \in {network_builder(arg.builder, out.frequencies[i + 1])} :
         IF ~network.ok THEN Leave(out)
         ELSE \E s \in {to_s_parameters_real(network.val, arg.z0)},
                 z_in \in {input_impedance(network.val, arg.z_load)},
                 z_out \in {output_impedance(network.val, arg.z_source)} :
           IF ~s.ok \/ ~z_in.ok \/ ~z_out.ok THEN Leave(out)
           ELSE Round(None,
                    [out EXCEPT !.s_params = Append(@, s.val),
                                !.input_impedances = Append(@, z_in.val),
                                !.output_impedances = Append(@, z_out.val)])

\* One round of the loop of perform_sweep: the builder, then the three
\* computations in the order of the source; the first exception leaves the call.
Step_perform_sweep ==
    /\ pc = "loop" /\ op = "perform_sweep"
    /\ i < Len(out.frequencies)
    /\ \E network \in {network_builder(arg.builder, out.frequencies[i + 1])} :
         IF ~network.ok THEN Unwind(network)
         ELSE \E s \in {to_s_parameters_real(network.val, arg.z0)} :
           IF ~s.ok THEN Unwind(s)
           ELSE \E z_in \in {input_impedance(network.val, arg.z_load)} :
             IF ~z_in.ok THEN Unwind(z_in)
             ELSE \E z_out \in {output_impedance(network.val, arg.z_source)} :
               IF ~z_out.ok THEN Unwind(z_out)
               ELSE Round(None,
                        [out EXCEPT !.s_params = Append(@, s.val),
                                    !.input_impedances = Append(@, z_in.val),
                                    !.output_impedances = Append(@, z_out.val)])

Return_perform_sweep ==
    /\ pc = "loop" /\ op = "perform_sweep"
    /\ i = Len(out.frequencies)
    /\ Leave(out)

Call_perform_component_sweep ==
    /\ pc = "idle"
    /\ \E sweep \in ComponentSweeps, z0 \in Z0s, before \in Cascades, after \in Cascades,
          z_load \in Loads :
           Invoke("perform_component_sweep",
                  [sweep |-> sweep, z0_system |-> z0, cascade_before |-> before,
                   cascade_after |-> after, z_load |-> z_load],
                  perform_component_sweep(sweep, z0, before, after, z_load))

Call_perform_component_sweep_checked ==
    /\ pc = "idle"
    /\ \E sweep \in ComponentSweeps, z0 \in Z0s, before \in {identity_two_port},
          after \in {identity_two_port}, z_load \in Loads :
           Invoke("perform_component_sweep_checked",
                  [sweep |-> sweep, z0_system |-> z0, cascade_before |-> before,
                   cascade_after |-> after, z_load |-> z_load],
                  perform_component_sweep_checked(sweep, z0, before, after, z_load))

\* The analyzer's components, as add_component left them.
ComponentLists ==
    {<<>>,
     <<component_tolerance("SERIES_R", Scale, Pct(10), "GAUSSIAN")>>,
     <<component_tolerance("SERIES_L", Pct(50), Pct(20), "UNIFORM"),
       component_tolerance("SHUNT_C", Pct(50), 0, "DISCRETE")>>,
     <<component_tolerance("SHUNT_C", Pct(50), Pct(50), "TRIANGULAR")>>,
     <<component_tolerance("SHUNT_R", -Scale, 0, "DISCRETE")>>,
     <<component_tolerance("SERIES_R", -2 * Scale, Pct(50), "GAUSSIAN")>>}

\* What the random generator can hand out for one value.
Draws ==
    {[u |-> 0, z |-> -4 * Scale], [u |-> Pct(50), z |-> 0], [u |-> Pct(75), z |-> 4 * Scale]}

\* The draws of one sample, one per component; a DISCRETE component takes no
\* variate from its draw.
SampleDraws(components) ==
    {draws \in [1..Len(components) -> Draws] :
        \A j \in 1..Len(components) :
            components[j].distribution = "DISCRETE" => draws[j].u = 0}

\* What an uninitialized double can hold.
Indeterminate == {0, NaN, -Scale}

Call_analyze ==
    /\ pc = "idle"
    /\ \E m_num_samples \in 0..MaxPoints, m_components \in ComponentLists, z0 \in Z0s :
           Enter("analyze",
                 [m_num_samples |-> m_num_samples, m_components |-> m_components,
                  frequency |-> Scale, z0_system |-> z0, z_load |-> CxOne],
                 None, monte_carlo_results(m_num_samples))

\* One sample: the values are drawn and stored, the network is built, and the
\* two computations follow in the order of the source.
Step_analyze ==
    /\ pc = "loop" /\ op = "analyze"
    /\ i < arg.m_num_samples
    /\ \E draws \in SampleDraws(arg.m_components) :
         \E values \in {[j \in 1..Len(arg.m_components) |->
                            generate_value(arg.m_components[j], draws[j])]} :
         \E network \in {build_network(arg.m_components, values, arg.frequency,
                                        Len(arg.m_components))} :
         \E z_in \in {input_impedance(network, arg.z_load)} :
           IF ~z_in.ok THEN Unwind(z_in)
           ELSE \E s \in {to_s_parameters_real(network, arg.z0_system)} :
             IF ~s.ok THEN Unwind(s)
             ELSE Round(None,
                      [out EXCEPT
                         !.component_values = Append(@, values),
                         !.impedances = Append(@, z_in.val),
                         !.s_params = Append(@, s.val),
                         !.probabilities = Append(@, dDiv(Scale, arg.m_num_samples * Scale))])

Return_analyze ==
    /\ pc = "loop" /\ op = "analyze"
    /\ i = arg.m_num_samples
    /\ \E garbage \in Indeterminate : Leave(read_results(calculate_statistics(out), garbage))

NextSweepExecutors ==
    \/ Call_get_frequencies
    \/ Call_get_values
    \/ Call_perform_sweep
    \/ Step_perform_sweep
    \/ Return_perform_sweep
    \/ Call_perform_component_sweep
    \/ Call_perform_component_sweep_checked
    \/ Call_analyze
    \/ Step_analyze
    \/ Return_analyze

NextSweep ==
    \/ NextSweepExecutors
    \/ Call_generate_sweep_points_builder
    \/ Step_generate_sweep_points_builder
    \/ Return_generate_sweep_points_builder

SpecSweep == Init /\ [][NextSweep]_vars

-----------------------------------------------------------------------------
(* two_port: calls of the analyses and the parameter conversions *)

\* Networks: the identity, a series and a shunt element, ABCD matrices whose
\* denominators vanish for a termination or reference impedance below, a
\* general complex matrix, the matrix of a series capacitor at 0 Hz, a
\* symmetric resistive T, a symmetric matrix with B / C = -1, the zero
\* matrix, and a matrix with determinant 1.05, inside the default tolerance
\* of is_reciprocal, whose S-parameter denominator is 0.05 for z0 = 1.
TwoPorts ==
    {identity_two_port,
     series_resistor(Scale),
     series_resistor(-2 * Scale),
     shunt_resistor(-Scale),
     shunt_capacitor(Pct(50), Pct(50)),
     two_port(CxReal(-Scale), CxOne, CxOne, Cx(0, Scale)),
     two_port(Cx(Scale, Scale), CxReal(Pct(50)), Cx(0, Scale), CxOne),
     two_port(CxOne, Cx(0, NInf), CxZero, CxOne),
     cascade(cascade(series_resistor(Pct(50)), shunt_resistor(Scale)),
             series_resistor(Pct(50))),
     two_port(CxZero, CxOne, CxReal(-Scale), CxZero),
     two_port(CxZero, CxZero, CxZero, CxZero),
     two_port(CxZero, CxReal(-Scale), CxReal(Pct(105)), CxZero)}

\* Terminations: matched, short, reactive, open, and half the reference.
Terminations == {CxOne, CxZero, Cx(0, Scale), Cx(Pct(50), 0), CxReal(PInf)}

\* Reference impedances, complex and real
ComplexZ0s == {CxOne, Cx(Scale, Scale), CxZero}
RealZ0s == {Scale, Pct(50), 0}

Call_input_impedance ==
    /\ pc = "idle"
    /\ \E n \in TwoPorts, z_load \in Terminations :
           Invoke("input_impedance", [n |-> n, z_load |-> z_load], input_impedance(n, z_load))

Call_output_impedance ==
    /\ pc = "idle"
    /\ \E n \in TwoPorts, z_source \in Terminations :
           Invoke("output_impedance", [n |-> n, z_source |-> z_source],
                  output_impedance(n, z_source))

Call_current_gain ==
    /\ pc = "idle"
    /\ \E n \in TwoPorts, z_load \in Terminations :
           Invoke("current_gain", [n |-> n, z_load |-> z_load], current_gain(n, z_load))

Call_voltage_gain ==
    /\ pc = "idle"
    /\ \E n \in TwoPorts, z_load \in Terminations :
           Invoke("voltage_gain", [n |-> n, z_load |-> z_load], voltage_gain(n, z_load))

Call_characteristic_impedance ==
    /\ pc = "idle"
    /\ \E n \in TwoPorts :
           Invoke("characteristic_impedance", [n |-> n], characteristic_impedance(n))

\* Tolerances of the predicates: the default and a quarter
Tolerances == {DEFAULT_TOLERANCE, Pct(25)}

\* A bool handed back to the caller
Bool(b) == [bool |-> b]

Call_is_lossless ==
    /\ pc = "idle"
    /\ \E n \in TwoPorts, tolerance \in Tolerances :
           Invoke("is_lossless", [n |-> n, tolerance |-> tolerance],
                  Ok(Bool(is_lossless(n, tolerance))))

Call_to_s_parameters ==
    /\ pc = "idle"
    /\ \E n \in TwoPorts, z0 \in ComplexZ0s :
           Invoke("to_s_parameters", [n |-> n, z0 |-> z0], to_s_parameters(n, z0))

Call_to_s_parameters_real ==
    /\ pc = "idle"
    /\ \E n \in TwoPorts, z0 \in RealZ0s :
           Invoke("to_s_parameters_real", [n |-> n, z0 |-> z0], to_s_parameters_real(n, z0))

Call_to_z_parameters ==
    /\ pc = "idle"
    /\ \E n \in TwoPorts :
           Invoke("to_z_parameters", [n |-> n], to_z_parameters(n))

Call_to_y_parameters ==
    /\ pc = "idle"
    /\ \E n \in TwoPorts :
           Invoke("to_y_parameters", [n |-> n], to_y_parameters(n))

\* Two-ports converted to S-parameters and back: the identity, series and
\* shunt elements of 2 and 1/2 (every quotient of both conversions is exact
\* for the reference impedances 1 and 1 + j), the L-network of the two, a
\* series reactance 2j, a resistive T, and series elements of 33.33 and 250.
RoundTripPorts ==
    {identity_two_port,
     series_resistor(2 * Scale),
     shunt_resistor(Pct(50)),
     cascade(series_resistor(2 * Scale), shunt_resistor(Pct(50))),
     series_impedance(Cx(0, 2 * Scale)),
     cascade(cascade(series_resistor(Pct(50)), shunt_resistor(Scale)),
             series_resistor(Pct(50))),
     series_resistor(Pct(3333)),
     series_resistor(250 * Scale)}

\* from_s_parameters(n.to_s_parameters(z0), z0), complex z0
Call_s_round_trip ==
    /\ pc = "idle"
    /\ \E n \in RoundTripPorts, z0 \in ComplexZ0s :
           Invoke("s_round_trip", [n |-> n, z0 |-> z0], s_round_trip(n, z0))

\* from_s_parameters(n.to_s_parameters(z0), z0), double z0
Call_s_round_trip_real ==
    /\ pc = "idle"
    /\ \E n \in RoundTripPorts, z0 \in RealZ0s :
           Invoke("s_round_trip_real", [n |-> n, z0 |-> CxReal(z0)],
                  s_round_trip(n, CxReal(z0)))

NextTwoPortAnalyses ==
    \/ Call_s_round_trip
    \/ Call_s_round_trip_real
    \/ Call_input_impedance
    \/ Call_output_impedance
    \/ Call_current_gain
    \/ Call_voltage_gain
    \/ Call_characteristic_impedance
    \/ Call_is_lossless
    \/ Call_to_s_parameters
    \/ Call_to_s_parameters_real
    \/ Call_to_z_parameters
    \/ Call_to_y_parameters

-----------------------------------------------------------------------------
(* components.h: calls of the component constructors.  A constructor has no
   throw statement: it always returns the two-port it computed. *)

\* R, L, C and turns ratios: physical, zero and negative
Values == {Scale, Pct(50), 0, -Scale}

\* Frequencies: positive, zero and negative
Freqs == {Scale, Pct(50), 0, -Scale}

\* Stub lengths (0, an eighth, a quarter and half a wavelength at frequency 1),
\* characteristic impedances and velocity factors
Lengths == {0, Pct(12), Pct(25), Pct(50)}
StubZ0s == {Scale, 0}
VelocityFactors == {Scale, 0}
StubFreqs == {Scale, 0}

Call_series_resistor ==
    /\ pc = "idle"
    /\ \E r \in Values : Invoke("series_resistor", [r |-> r], Ok(series_resistor(r)))

Call_shunt_resistor ==
    /\ pc = "idle"
    /\ \E r \in Values : Invoke("shunt_resistor", [r |-> r], Ok(shunt_resistor(r)))

Call_series_inductor ==
    /\ pc = "idle"
    /\ \E l \in Values, freq \in Freqs :
           Invoke("series_inductor", [l |-> l, freq |-> freq], Ok(series_inductor(l, freq)))

Call_series_capacitor ==
    /\ pc = "idle"
    /\ \E c \in Values, freq \in Freqs :
           Invoke("series_capacitor", [c |-> c, freq |-> freq], Ok(series_capacitor(c, freq)))

Call_shunt_inductor ==
    /\ pc = "idle"
    /\ \E l \in Values, freq \in Freqs :
           Invoke("shunt_inductor", [l |-> l, freq |-> freq], Ok(shunt_inductor(l, freq)))

Call_shunt_capacitor ==
    /\ pc = "idle"
    /\ \E c \in Values, freq \in Freqs :
           Invoke("shunt_capacitor", [c |-> c, freq |-> freq], Ok(shunt_capacitor(c, freq)))

Call_ideal_transformer ==
    /\ pc = "idle"
    /\ \E turns_ratio \in Values :
           Invoke("ideal_transformer", [turns_ratio |-> turns_ratio],
                  Ok(ideal_transformer(turns_ratio)))

\* The arguments of a stub constructor
StubArgs == [length : Lengths, z0 : StubZ0s, freq : StubFreqs, vf : VelocityFactors]

Call_series_open_stub ==
    /\ pc = "idle"
    /\ \E a \in StubArgs :
           Invoke("series_open_stub", a, Ok(series_open_stub(a.length, a.z0, a.freq, a.vf)))

Call_series_short_stub ==
    /\ pc = "idle"
    /\ \E a \in StubArgs :
           Invoke("series_short_stub", a, Ok(series_short_stub(a.length, a.z0, a.freq, a.vf)))

Call_shunt_open_stub ==
    /\ pc = "idle"
    /\ \E a \in StubArgs :
           Invoke("shunt_open_stub", a, Ok(shunt_open_stub(a.length, a.z0, a.freq, a.vf)))

Call_shunt_short_stub ==
    /\ pc = "idle"
    /\ \E a \in StubArgs :
           Invoke("shunt_short_stub", a, Ok(shunt_short_stub(a.length, a.z0, a.freq, a.vf)))

NextComponents ==
    \/ Call_series_resistor
    \/ Call_shunt_resistor
    \/ Call_series_inductor
    \/ Call_series_capacitor
    \/ Call_shunt_inductor
    \/ Call_shunt_capacitor
    \/ Call_ideal_transformer
    \/ Call_series_open_stub
    \/ Call_series_short_stub
    \/ Call_shunt_open_stub
    \/ Call_shunt_short_stub

NextTwoPort ==
    \/ NextTwoPortAnalyses
    \/ NextComponents

SpecTwoPort == Init /\ [][NextTwoPort]_vars

-----------------------------------------------------------------------------
(* two_port: cascades, as the expressions t1 * t2 * t3 and the loops of
   operator*= build them *)

\* Two-ports that are cascaded: the identity; a unit series and a unit shunt
\* resistor; a matrix of Gaussian integers; elements whose products round
\* (33.33 and 9.09 in series, 1/3 in shunt); and two diagonal matrices, 20
\* and 0.5: the product 20 * 20 is above the largest double of the grid.
CascadePorts ==
    {identity_two_port,
     series_resistor(Scale),
     shunt_resistor(Scale),
     two_port(Cx(0, Scale), CxOne, CxReal(-Scale), Cx(Scale, Scale)),
     series_resistor(Pct(3333)),
     shunt_resistor(3 * Scale),
     series_resistor(Pct(909)),
     two_port(CxReal(20 * Scale), CxZero, CxZero, CxReal(20 * Scale)),
     two_port(CxReal(Pct(50)), CxZero, CxZero, CxReal(Pct(50)))}

\* (t1 * t2) * t3 and t1 * (t2 * t3)
Call_cascade_groupings ==
    /\ pc = "idle"
    /\ \E t1 \in CascadePorts, t2 \in CascadePorts, t3 \in CascadePorts :
           Invoke("cascade_groupings", [t1 |-> t1, t2 |-> t2, t3 |-> t3],
                  Ok([left |-> cascade(cascade(t1, t2), t3),
                      right |-> cascade(t1, cascade(t2, t3))]))

\* two_port::two_port(): the default constructor
two_port_default == two_port(CxOne, CxZero, CxZero, CxOne)

\* The two identities
Identities == {two_port_default, identity_two_port}

\* Two-ports cascaded with the identity: the ones above, and the series
\* capacitors the constructor returns for the capacitances and frequencies of
\* the component calls.
IdentityOperands ==
    CascadePorts \cup {series_capacitor(c, freq) : c \in Values, freq \in Freqs}

\* id * t and t * id
Call_identity_cascade ==
    /\ pc = "idle"
    /\ \E id \in Identities, t \in IdentityOperands :
           Invoke("identity_cascade", [id |-> id, t |-> t],
                  Ok([left |-> cascade(id, t), right |-> cascade(t, id)]))

\* The length of the longest chain (the loop of LongCascade runs 10 times)
MaxCascade == 3

\* Reciprocal primitives with physical element values: unit series and shunt
\* resistors, a series reactance j, a shunt capacitor, and a series and a
\* shunt resistor whose products round (33.33 and 1/3).
ReciprocalPrimitives ==
    {series_resistor(Scale),
     shunt_resistor(Scale),
     series_impedance(Cx(0, Scale)),
     shunt_capacitor(Pct(50), Pct(50)),
     series_resistor(Pct(3333)),
     shunt_resistor(3 * Scale)}

\* chain = identity_two_port()
Call_long_cascade ==
    Enter("long_cascade", None, [chain |-> identity_two_port, elements |-> <<>>], None)

\* chain *= r, for one more element r
Step_long_cascade ==
    /\ pc = "loop" /\ op = "long_cascade"
    /\ i < MaxCascade
    /\ \E r \in ReciprocalPrimitives :
           Round([chain |-> cascade_in_place(loc.chain, r),
                  elements |-> Append(loc.elements, r)], out)

\* chain.is_reciprocal(), and the chain
Return_long_cascade ==
    /\ pc = "loop" /\ op = "long_cascade"
    /\ Leave([chain |-> loc.chain,
              is_reciprocal |-> is_reciprocal(loc.chain, DEFAULT_TOLERANCE)])

\* a *= other, where other refers to b or to a itself.  The four products are
\* read from *this and other before m_abcd is assigned, so the operands of an
\* aliased call are the prior elements of a; only the object a is written.
Call_InPlaceCascade ==
    /\ pc = "idle"
    /\ \E a \in CascadePorts, b \in CascadePorts, other \in {"a", "b"} :
           \E objects \in {[a |-> a, b |-> b]} :
               Invoke("InPlaceCascade", [a |-> a, b |-> b, other |-> other],
                      Ok([objects EXCEPT !.a = cascade_in_place(objects.a, objects[other])]))

NextCascade ==
    \/ Call_cascade_groupings
    \/ Call_InPlaceCascade
    \/ Call_identity_cascade
    \/ Call_long_cascade
    \/ Step_long_cascade
    \/ Return_long_cascade

SpecCascade == Init /\ [][NextCascade]_vars

-----------------------------------------------------------------------------
(* monte_carlo_sampler, and the draws of component_tolerance *)

\* std::mt19937: the state is the seed and the number of outputs taken.  The
\* outputs of a seed are a fixed stream; an output is read as the uniform
\* variate u in [0, 1) or as the standard normal variate z.
RngStream ==
    <<[u |-> 0, z |-> -4 * Scale], [u |-> Pct(50), z |-> 0], [u |-> Pct(75), z |-> 4 * Scale],
      [u |-> Pct(25), z |-> -Scale], [u |-> Pct(90), z |-> 2 * Scale]>>

mt19937(seed) == [seed |-> seed, taken |-> 0]

mt19937_output(rng, k) == RngStream[((rng.seed + rng.taken + k) % Len(RngStream)) + 1]

mt19937_discard(rng, k) == [rng EXCEPT !.taken = @ + k]

component_variation(nominal, percent, dist) ==
    [nominal_value |-> nominal, tolerance_percent |-> percent, distribution |-> dist]

\* std::normal_distribution<double>(0.0, 1.0) after construction.  A library
\* that makes its variates in pairs keeps the second for the next call.
normal_distribution == [saved_available |-> FALSE, saved |-> 0]

\* dist(rng): the variate, and the generator and the distribution afterwards.
normal_distribution_call(dist, rng, pairs) ==
    IF pairs /\ dist.saved_available
    THEN [value |-> dist.saved, rng |-> rng, dist |-> [dist EXCEPT !.saved_available = FALSE]]
    ELSE IF pairs
    THEN [value |-> mt19937_output(rng, 0).z, rng |-> mt19937_discard(rng, 2),
          dist |-> [saved_available |-> TRUE, saved |-> mt19937_output(rng, 1).z]]
    ELSE [value |-> mt19937_output(rng, 0).z, rng |-> mt19937_discard(rng, 1), dist |-> dist]

\* sample_gaussian, given what the function-static dist handed out.
sample_gaussian_from(mean, std_dev, drawn) ==
    [drawn EXCEPT !.value = dAdd(mean, dMul(std_dev, @))]

\* monte_carlo_sampler::sample_gaussian: dist is the function's static
\* distribution, shared by every sampler.
sample_gaussian(mean, std_dev, rng, dist, pairs) ==
    sample_gaussian_from(mean, std_dev, normal_distribution_call(dist, rng, pairs))

\* monte_carlo_sampler::sample_uniform: a distribution of its own per call.
sample_uniform(min_val, max_val, rng, dist) ==
    [value |-> dAdd(min_val, dMul(mt19937_output(rng, 0).u, dSub(max_val, min_val))),
     rng |-> mt19937_discard(rng, 1), dist |-> dist]

\* The end of one round of generate_samples: the floor and the push_back.
generate_samples_push(component, samples, drawn) ==
    [samples |-> Append(samples, StdMax(drawn.value, dMul(component.nominal_value, Pct(1)))),
     rng |-> drawn.rng, dist |-> drawn.dist]

generate_samples_round(component, tolerance, acc, pairs) ==
    generate_samples_push(component, acc.samples,
        IF component.distribution = "GAUSSIAN"
        THEN sample_gaussian(component.nominal_value, dDiv(tolerance, 3 * Scale),
                             acc.rng, acc.dist, pairs)
        ELSE sample_uniform(dSub(component.nominal_value, tolerance),
                            dAdd(component.nominal_value, tolerance), acc.rng, acc.dist))

RECURSIVE generate_samples_loop(_, _, _, _, _)
generate_samples_loop(component, tolerance, n, acc, pairs) ==
    IF n <= 0 THEN acc
    ELSE generate_samples_loop(component, tolerance, n - 1,
                               generate_samples_round(component, tolerance, acc, pairs), pairs)

\* monte_carlo_sampler::generate_samples on the sampler with generator rng
generate_samples(component, num_samples, rng, dist, pairs) ==
    generate_samples_loop(
        component,
        dDiv(dMul(component.nominal_value, component.tolerance_percent), 100 * Scale),
        num_samples, [samples |-> <<>>, rng |-> rng, dist |-> dist], pairs)

\* Seeds of the samplers of one program.
Seeds == {0, 1}

\* Variations of physical components (nominal 1.0): 10 % and 150 % Gaussian,
\* 10 % and 150 % uniform.
ComponentVariations ==
    {component_variation(Scale, 10 * Scale, "GAUSSIAN"),
     component_variation(Scale, 150 * Scale, "GAUSSIAN"),
     component_variation(Scale, 10 * Scale, "UNIFORM"),
     component_variation(Scale, 150 * Scale, "UNIFORM")}

\* A program with two samplers, the first seeded 0.  pairs tells whether the
\* library's normal distribution keeps a second variate.
Call_monte_carlo_sampler ==
    /\ pc = "idle"
    /\ \E seed \in Seeds, pairs \in BOOLEAN :
           Enter("monte_carlo_sampler", [seeds |-> <<0, seed>>, pairs |-> pairs],
                 [m_rng |-> <<mt19937(0), mt19937(seed)>>, dist |-> normal_distribution],
                 <<>>)

\* One call of generate_samples on one of the samplers; out is the history of
\* the calls and what they returned.
Call_generate_samples ==
    /\ pc = "loop" /\ op = "monte_carlo_sampler"
    /\ i < MaxPoints
    /\ \E k \in 1..2, component \in ComponentVariations, num_samples \in {1, MaxPoints} :
         \E r \in {generate_samples(component, num_samples, loc.m_rng[k], loc.dist,
                                     arg.pairs)} :
           Round([m_rng |-> [loc.m_rng EXCEPT ![k] = r.rng], dist |-> r.dist],
                 Append(out, [sampler |-> k, component |-> component,
                              num_samples |-> num_samples, samples |-> r.samples]))

Return_monte_carlo_sampler ==
    /\ pc = "loop" /\ op = "monte_carlo_sampler"
    /\ i = MaxPoints
    /\ Leave(out)

\* Components with a positive nominal value, of every distribution, with
\* tolerances 10 %, 50 %, 100 % and 150 %.
ToleranceComponents ==
    {component_tolerance("SERIES_R", Scale, tol, dist) :
        tol \in {Pct(10), Pct(50), Scale, Pct(150)},
        dist \in {"UNIFORM", "GAUSSIAN", "TRIANGULAR", "DISCRETE"}}

Call_generate_value ==
    /\ pc = "idle"
    /\ \E comp \in ToleranceComponents, k \in 1..Len(RngStream) :
           Invoke("generate_value", [comp |-> comp, draw |-> RngStream[k]],
                  Ok(generate_value(comp, RngStream[k])))

\* x / 1e6, in three steps that stay on the grid
per_million(x) == dDiv(dDiv(dDiv(x, 100 * Scale), 100 * Scale), 100 * Scale)

\* temp_factor = 1.0 + comp.temperature_coefficient * (temp - 25.0) / 1e6
temp_factor(temperature_coefficient, temp) ==
    dAdd(Scale, per_million(dMul(temperature_coefficient, dSub(temp, 25 * Scale))))

\* The components adjusted for a temperature.  The components are built with
\* the constructor's default temp_coeff = 0.0.
temp_components(components, temp) ==
    [j \in 1..Len(components) |->
        [components[j] EXCEPT !.nominal_value = dMul(@, temp_factor(0, temp))]]

\* temp = temp_min + t * temp_step
temperature(a, t) ==
    dAdd(a.temp_min,
         dMul(t * Scale, dDiv(dSub(a.temp_max, a.temp_min), size_minus_1(a.temp_steps))))

\* The locals at the start of the round for temperature t: the adjusted
\* components and the results of the analyzer made for it.  finished keeps the
\* temp_results of the rounds before, for the properties.
temperature_round(a, t, finished) ==
    [t |-> t,
     temp_components |-> temp_components(a.m_components, temperature(a, t)),
     temp_results |-> monte_carlo_results(a.m_num_samples \div a.temp_steps),
     finished |-> finished]

\* The analyzer's components for the temperature analysis: a resistor that
\* passes VSWR < 2, one that fails for some draws, and none.
TemperatureComponentLists ==
    {<<component_tolerance("SERIES_R", Pct(20), Pct(10), "GAUSSIAN")>>,
     <<component_tolerance("SERIES_R", Scale, Pct(50), "UNIFORM")>>,
     <<>>}

Call_analyze_temperature ==
    /\ pc = "idle"
    /\ \E m_num_samples \in 0..(MaxPoints + 1), temp_steps \in 0..MaxPoints,
          m_components \in TemperatureComponentLists, z0 \in Z0s :
         \E a \in {[m_num_samples |-> m_num_samples, m_components |-> m_components,
                     frequency |-> Scale, temp_min |-> -40 * Scale, temp_max |-> 85 * Scale,
                     temp_steps |-> temp_steps, z0_system |-> z0]} :
           Enter("analyze_temperature", a,
                 IF temp_steps = 0 THEN [t |-> 0, finished |-> <<>>]
                 ELSE temperature_round(a, 0, <<>>),
                 monte_carlo_results(0))

\* One sample of temp_analyzer.analyze(frequency, z0_system), as Step_analyze.
Step_analyze_temperature ==
    /\ pc = "loop" /\ op = "analyze_temperature"
    /\ loc.t < arg.temp_steps
    /\ Len(loc.temp_results.impedances) < loc.temp_results.num_samples
    /\ \E draws \in SampleDraws(loc.temp_components) :
         \E values \in {[j \in 1..Len(loc.temp_components) |->
                            generate_value(loc.temp_components[j], draws[j])]} :
         \E network \in {build_network(loc.temp_components, values, arg.frequency,
                                        Len(loc.temp_components))} :
         \E z_in \in {input_impedance(network, CxOne)} :
           IF ~z_in.ok THEN Unwind(z_in)
           ELSE \E s \in {to_s_parameters_real(network, arg.z0_system)} :
             IF ~s.ok THEN Unwind(s)
             ELSE Round([loc EXCEPT
                           !.temp_results.component_values = Append(@, values),
                           !.temp_results.impedances = Append(@, z_in.val),
                           !.temp_results.s_params = Append(@, s.val),
                           !.temp_results.probabilities =
                               Append(@, dDiv(Scale, loc.temp_results.num_samples * Scale))],
                        out)

\* The end of the round for one temperature: analyze returns its results with
\* their statistics, and their impedances are inserted into combined_results.
Combine_analyze_temperature ==
    /\ pc = "loop" /\ op = "analyze_temperature"
    /\ loc.t < arg.temp_steps
    /\ Len(loc.temp_results.impedances) = loc.temp_results.num_samples
    /\ \E temp_results \in {calculate_statistics(loc.temp_results)} :
           Round(IF loc.t + 1 < arg.temp_steps
                 THEN temperature_round(arg, loc.t + 1, Append(loc.finished, temp_results))
                 ELSE [t |-> loc.t + 1, finished |-> Append(loc.finished, temp_results)],
                 [out EXCEPT !.impedances = @ \o temp_results.impedances])

\* combined_results.num_samples = combined_results.impedances.size();
\* calculate_statistics(combined_results); return combined_results;
Return_analyze_temperature ==
    /\ pc = "loop" /\ op = "analyze_temperature"
    /\ loc.t = arg.temp_steps
    /\ \E garbage \in Indeterminate :
           /\ ret' = read_results(
                         calculate_statistics([out EXCEPT !.num_samples = Len(out.impedances)]),
                         garbage)
           /\ pc' = "returned"
           /\ out' = None
           /\ UNCHANGED <<fp, m_config, op, arg, i, err, loc>>

NextMonteCarlo ==
    \/ Call_monte_carlo_sampler
    \/ Call_generate_samples
    \/ Return_monte_carlo_sampler
    \/ Call_generate_value
    \/ Call_analyze_temperature
    \/ Step_analyze_temperature
    \/ Combine_analyze_temperature
    \/ Return_analyze_temperature

SpecMonteCarlo == Init /\ [][NextMonteCarlo]_vars

-----------------------------------------------------------------------------
(* Agreement within a tolerance, and operations that do not round *)

\* Two complex numbers agree within a tolerance: EXPECT_NEAR on both parts.
\* False when a part of either is NaN, and for infinities (inf - inf is NaN).
cWithin(x, y, tolerance) ==
    /\ dLt(Abs(dSub(x.re, y.re)), tolerance)
    /\ dLt(Abs(dSub(x.im, y.im)), tolerance)

two_port_within(m, n, tolerance) ==
    /\ cWithin(m.a, n.a, tolerance)
    /\ cWithin(m.b, n.b, tolerance)
    /\ cWithin(m.c, n.c, tolerance)
    /\ cWithin(m.d, n.d, tolerance)

\* The product of two doubles is computed without rounding and in range.
dMulExact(x, y) ==
    /\ IsFinite(x) /\ IsFinite(y)
    /\ (x * y) % Scale = 0
    /\ Abs(x * y) <= DblMax * Scale

cMulExact(x, y) ==
    /\ dMulExact(x.re, y.re) /\ dMulExact(x.im, y.im)
    /\ dMulExact(x.re, y.im) /\ dMulExact(x.im, y.re)

\* The products of a determinant are exact, and the determinant finite.
determinant_is_exact(n) ==
    /\ cMulExact(n.a, n.d) /\ cMulExact(n.b, n.c)
    /\ cIsFinite(determinant(n))

\* The quotient q of x / y is exact: q * y is x, without rounding.
cQuotientExact(q, x, y) == cIsFinite(q) /\ cMulExact(q, y) /\ cMul(q, y) = x
cDivExact(x, y) == cQuotientExact(cDiv(x, y), x, y)

-----------------------------------------------------------------------------
(* Properties of the sweep executors *)

\* The first outcome of the sequence that is an exception; Ok when none is.
first_exception(outcomes) ==
    IF \A k \in 1..Len(outcomes) : outcomes[k].ok THEN Ok(TRUE)
    ELSE outcomes[CHOOSE k \in 1..Len(outcomes) :
                      ~outcomes[k].ok /\ \A j \in 1..(k - 1) : outcomes[j].ok]

\* What the sweep value freq raises in perform_sweep, in the order of its
\* statements; Ok when it raises nothing.
perform_sweep_raises(a, freq) ==
    CHOOSE r \in
        {IF ~network.ok THEN network
         ELSE CHOOSE e \in
                  {first_exception(computed) :
                      computed \in {<<to_s_parameters_real(network.val, a.z0),
                                      input_impedance(network.val, a.z_load),
                                      output_impedance(network.val, a.z_source)>>}} : TRUE :
            network \in {network_builder(a.builder, freq)}} : TRUE

\* The same for the builder mode of generate_sweep_points.
builder_sweep_raises(a, freq) ==
    CHOOSE r \in
        {IF ~network.ok THEN network
         ELSE CHOOSE e \in
                  {first_exception(computed) :
                      computed \in {<<input_impedance(network.val, a.load_impedance)>>}} : TRUE :
            network \in {network_builder(a.network_builder, freq)}} : TRUE

\* The outcomes of the sweep values, and the index of the first that raises
\* (0 when none does).
sweep_outcomes ==
    IF op = "perform_sweep"
    THEN CHOOSE o \in {[k \in 1..Len(freqs) |-> perform_sweep_raises(arg, freqs[k])] :
                          freqs \in {get_frequencies(arg.sweep)}} : TRUE
    ELSE CHOOSE o \in {[k \in 1..Len(freqs) |-> builder_sweep_raises(arg, freqs[k])] :
                          freqs \in {get_frequencies(arg.frequencies)}} : TRUE

first_raising(outcomes) ==
    IF \A k \in 1..Len(outcomes) : outcomes[k].ok THEN 0
    ELSE CHOOSE k \in 1..Len(outcomes) :
             ~outcomes[k].ok /\ \A j \in 1..(k - 1) : outcomes[j].ok

\* C4: when a sweep value raises in perform_sweep or in the builder-mode
\* Smith-chart sweep, the call never returns, no value after the first raising
\* one is evaluated, and the call ends with that first error and no result,
\* the one under construction gone; when none raises, the call raises nothing.
C4_FirstErrorPropagates ==
    (op \in {"perform_sweep", "generate_sweep_points_builder"}) =>
        \E outcomes \in {sweep_outcomes} : \E k \in {first_raising(outcomes)} :
            /\ k = 0 => pc # "raised"
            /\ k > 0 => (pc # "returned" /\ i < k)
            /\ pc = "raised" =>
                  /\ i = k - 1
                  /\ err = [type |-> outcomes[k].type, what |-> outcomes[k].what]
                  /\ ret = None /\ out = None

\* perform_sweep has raised the S-parameter error at a second or later value.
C4_Witness ==
    /\ op = "perform_sweep" /\ pc = "raised" /\ i >= 1
    /\ err.what = "S-parameter conversion: division by zero"

\* The network of the k-th value of a component sweep.
component_sweep_network_at(a, value) ==
    cascade(cascade(a.cascade_before, create_network(a.sweep, value)), a.cascade_after)

reflection_of(z_in, z0) ==
    cDiv(cSubReal(cDivReal(z_in, z0), Scale), cAddReal(cDivReal(z_in, z0), Scale))

\* C5 for perform_sweep: the arrays have num_points entries, and the k-th of
\* each is computed from the k-th frequency.
C5_perform_sweep ==
    (op = "perform_sweep" /\ pc = "returned") =>
        /\ ret.frequencies = get_frequencies(arg.sweep)
        /\ Len(ret.frequencies) = arg.sweep.num_points
        /\ Len(ret.s_params) = arg.sweep.num_points
        /\ Len(ret.input_impedances) = arg.sweep.num_points
        /\ Len(ret.output_impedances) = arg.sweep.num_points
        /\ \A k \in 1..arg.sweep.num_points :
             \E network \in {network_builder(arg.builder, ret.frequencies[k]).val} :
               /\ ret.s_params[k] = to_s_parameters_real(network, arg.z0).val
               /\ ret.input_impedances[k] = input_impedance(network, arg.z_load).val
               /\ ret.output_impedances[k] = output_impedance(network, arg.z_source).val

\* C5 for perform_component_sweep (through the checked entry too).
C5_perform_component_sweep ==
    (op \in {"perform_component_sweep", "perform_component_sweep_checked"}
        /\ pc = "returned") =>
        /\ ret.values = get_values(arg.sweep)
        /\ Len(ret.values) = arg.sweep.num_points
        /\ Len(ret.impedances) = arg.sweep.num_points
        /\ Len(ret.admittances) = arg.sweep.num_points
        /\ Len(ret.s_params) = arg.sweep.num_points
        /\ Len(ret.reflection_coefficients) = arg.sweep.num_points
        /\ \A k \in 1..arg.sweep.num_points :
             \E network \in {component_sweep_network_at(arg, ret.values[k])} :
               /\ ret.impedances[k] = input_impedance(network, arg.z_load).val
               /\ ret.admittances[k] = cDiv(CxOne, ret.impedances[k])
               /\ ret.s_params[k] = to_s_parameters_real(network, arg.z0_system).val
               /\ ret.reflection_coefficients[k] =
                      reflection_of(ret.impedances[k], arg.z0_system)

\* C5 for analyze: M entries in each vector, the i-th impedance and
\* S-parameter bundle computed from the i-th component-value vector.
C5_analyze ==
    (op = "analyze" /\ pc = "returned") =>
        /\ ret.num_samples = arg.m_num_samples
        /\ Len(ret.impedances) = arg.m_num_samples
        /\ Len(ret.s_params) = arg.m_num_samples
        /\ Len(ret.component_values) = arg.m_num_samples
        /\ \A k \in 1..arg.m_num_samples :
             /\ Len(ret.component_values[k]) = Len(arg.m_components)
             /\ \E network \in {build_network(arg.m_components, ret.component_values[k],
                                               arg.frequency, Len(arg.m_components))} :
                  /\ ret.impedances[k] = input_impedance(network, arg.z_load).val
                  /\ ret.s_params[k] = to_s_parameters_real(network, arg.z0_system).val

\* C5: the results of perform_sweep, perform_component_sweep and analyze are
\* parallel arrays with one entry per sweep value (sample), in sweep (sample)
\* order.
C5_ParallelArraysInOrder == C5_perform_sweep /\ C5_perform_component_sweep /\ C5_analyze

\* A component sweep has returned at least two values with different
\* impedances.
C5_Witness ==
    /\ op = "perform_component_sweep" /\ pc = "returned"
    /\ arg.sweep.num_points >= 2
    /\ ret.impedances[1] # ret.impedances[2]

\* The descriptors the documentation calls invalid.
invalid_frequency_sweep(sweep) ==
    \/ sweep.num_points < 2
    \/ sweep.start_freq = sweep.stop_freq /\ sweep.num_points > 1
    \/ sweep.type = "LOG" /\ sweep.start_freq <= 0
    \/ sweep.start_freq <= 0

invalid_component_sweep(sweep) ==
    \/ sweep.num_points < 2
    \/ sweep.value_start = sweep.value_stop /\ sweep.num_points > 1
    \/ sweep.distribution = "LOG" /\ sweep.value_start <= 0
    \/ sweep.frequency <= 0

\* C7: value enumeration and the sweep executors reject an invalid descriptor
\* with the invalid-sweep error, before the first round and without a result.
C7_InvalidSweepRejected ==
    /\ (op \in {"get_frequencies", "perform_sweep"} /\ invalid_frequency_sweep(arg.sweep))
          => (pc = "raised" /\ err.type = InvalidArgument /\ i = 0 /\ ret = None)
    /\ (op \in {"get_values", "perform_component_sweep"}
            /\ invalid_component_sweep(arg.sweep))
          => (pc = "raised" /\ err.type = InvalidArgument /\ i = 0 /\ ret = None)

-----------------------------------------------------------------------------
(* Properties of the two_port analyses and the component constructors *)

GuardedAnalyses ==
    {"input_impedance", "output_impedance", "current_gain", "to_s_parameters",
     "to_s_parameters_real", "to_z_parameters", "to_y_parameters"}

\* The reference impedance of the S conversion in progress
reference_impedance == IF op = "to_s_parameters_real" THEN CxReal(arg.z0) ELSE arg.z0

\* The documented denominator of the call: C Z_L + D, C Z_S + A, C Z_L + D,
\* A + B / Z0 + C Z0 + D, C and B.
documented_denominator ==
    CASE op \in {"input_impedance", "current_gain"} ->
             cAdd(cMul(arg.n.c, arg.z_load), arg.n.d)
      [] op = "output_impedance" ->
             cAdd(cMul(arg.n.c, arg.z_source), arg.n.a)
      [] op \in {"to_s_parameters", "to_s_parameters_real"} ->
             cAdd(cAdd(cAdd(arg.n.a, cDiv(arg.n.b, reference_impedance)),
                       cMul(arg.n.c, reference_impedance)), arg.n.d)
      [] op = "to_z_parameters" -> arg.n.c
      [] op = "to_y_parameters" -> arg.n.b

\* The documented result of the call, over the denominator den
documented_quotient(den) ==
    CASE op = "input_impedance" ->
             cDiv(cAdd(cMul(arg.n.a, arg.z_load), arg.n.b), den)
      [] op = "output_impedance" ->
             cDiv(cAdd(cMul(arg.n.d, arg.z_source), arg.n.b), den)
      [] op = "current_gain" -> cDiv(CxOne, den)
      [] op \in {"to_s_parameters", "to_s_parameters_real"} ->
             [s11 |-> cDiv(cSub(cSub(cAdd(arg.n.a, cDiv(arg.n.b, reference_impedance)),
                                     cMul(arg.n.c, reference_impedance)), arg.n.d), den),
              s12 |-> cDiv(cScale(2 * Scale, determinant(arg.n)), den),
              s21 |-> cDiv(CxReal(2 * Scale), den),
              s22 |-> cDiv(cAdd(cSub(cAdd(cNeg(arg.n.a), cDiv(arg.n.b, reference_impedance)),
                                     cMul(arg.n.c, reference_impedance)), arg.n.d), den)]
      [] op = "to_z_parameters" ->
             [z11 |-> cDiv(arg.n.a, den), z12 |-> cDiv(determinant(arg.n), den),
              z21 |-> cDiv(CxOne, den), z22 |-> cDiv(arg.n.d, den)]
      [] op = "to_y_parameters" ->
             [y11 |-> cDiv(arg.n.d, den), y12 |-> cDiv(cNeg(determinant(arg.n)), den),
              y21 |-> cDiv(CxReal(-Scale), den), y22 |-> cDiv(arg.n.a, den)]

\* C6: each of input_impedance, output_impedance, current_gain,
\* to_s_parameters, to_z_parameters and to_y_parameters raises exactly when
\* the magnitude of its documented denominator is below 1e-20, and otherwise
\* returns the documented quotient.
C6_GuardedQuotients ==
    op \in GuardedAnalyses =>
        \E den \in {documented_denominator} :
            /\ (pc = "raised") <=> below_1e_20(cAbs(den))
            /\ pc = "raised" => (err.type = Singular /\ ret = None)
            /\ pc # "raised" => (pc = "returned" /\ ret = documented_quotient(den))

\* The S conversion has raised for a network with B # 0, whose denominator
\* 1 + (-2) / 1 + 0 + 1 vanishes by cancellation.
C6_Witness ==
    /\ op = "to_s_parameters" /\ pc = "raised"
    /\ arg.n = series_resistor(-2 * Scale) /\ arg.z0 = CxOne

\* C11: voltage_gain raises whenever a denominator it divides by, the load
\* Z_L or A + B / Z_L, is below 1e-20 in magnitude; otherwise it returns
\* 1 / (A + B / Z_L), and for finite ABCD entries the value it returns is
\* finite.
C11_VoltageGainGuarded ==
    op = "voltage_gain" =>
        \E den \in {cAdd(arg.n.a, cDiv(arg.n.b, arg.z_load))} :
            /\ (below_1e_20(cAbs(arg.z_load)) \/ below_1e_20(cAbs(den)))
                  => (pc = "raised" /\ err.type = Singular)
            /\ pc = "returned" => ret = cDiv(CxOne, den)
            /\ (pc = "returned" /\ two_port_is_finite(arg.n)) => cIsFinite(ret)

\* C12: characteristic_impedance fails with the kind Nonsymmetric, an
\* exception class other than Singular's, when |A - D| >= 1e-10, with the
\* kind Singular when the network is symmetric and |C| < 1e-20, and
\* otherwise returns sqrt(B / C).
C12_CharacteristicImpedanceKinds ==
    op = "characteristic_impedance" =>
        \E asym \in {cAbs(cSub(arg.n.a, arg.n.d))} :
            /\ dLe(DEFAULT_TOLERANCE, asym)
                  => (pc = "raised" /\ err.type # Singular)
            /\ (dLt(asym, DEFAULT_TOLERANCE) /\ below_1e_20(cAbs(arg.n.c)))
                  => (pc = "raised" /\ err.type = Singular)
            /\ (dLt(asym, DEFAULT_TOLERANCE) /\ ~below_1e_20(cAbs(arg.n.c)))
                  => (pc = "returned" /\ ret = cSqrt(cDiv(arg.n.b, arg.n.c)))

\* C13: is_lossless(eps) is true iff |Im A|, |Im D|, |Re B| and |Re C| are
\* below eps and | |det| - 1 | is below eps; a matrix with |det| <= 1 - eps is
\* not lossless.
C13_LosslessIff ==
    op = "is_lossless" =>
        ret.bool = (/\ dLt(Abs(arg.n.a.im), arg.tolerance)
                    /\ dLt(Abs(arg.n.d.im), arg.tolerance)
                    /\ dLt(Abs(arg.n.b.re), arg.tolerance)
                    /\ dLt(Abs(arg.n.c.re), arg.tolerance)
                    /\ dLt(Abs(dSub(cAbs(determinant(arg.n)), Scale)), arg.tolerance))

StubConstructors ==
    {"series_open_stub", "series_short_stub", "shunt_open_stub", "shunt_short_stub"}

\* The stubs whose expression is a cotangent: it is singular where tan is 0.
\* The tangent of the other two is singular at no representable length.
CotStubs == {"series_open_stub", "shunt_short_stub"}

at_stub_singularity ==
    op \in CotStubs /\ below_1e_20(Abs(dTan(beta_l(arg.length, arg.freq, arg.vf))))

\* C8: a stub constructor raises Singular when its electrical length is at an
\* exact singularity of its tan / cot expression, and for every other finite
\* input returns a two-port without NaN.
C8_StubsSingularOrNoNaN ==
    op \in StubConstructors =>
        IF at_stub_singularity
        THEN pc = "raised" /\ err.type = Singular
        ELSE pc = "returned" /\ ~two_port_has_nan(ret)

LumpedConstructors ==
    {"series_resistor", "shunt_resistor", "series_inductor", "series_capacitor",
     "shunt_inductor", "shunt_capacitor", "ideal_transformer"}

\* The call's parameters are non-physical: a negative R, L or C, or a
\* non-positive frequency for the two elements that divide by omega.
non_physical ==
    CASE op \in {"series_resistor", "shunt_resistor"} -> dLt(arg.r, 0)
      [] op = "series_inductor" -> dLt(arg.l, 0)
      [] op = "shunt_capacitor" -> dLt(arg.c, 0)
      [] op = "series_capacitor" -> dLt(arg.c, 0) \/ dLe(arg.freq, 0)
      [] op = "shunt_inductor" -> dLt(arg.l, 0) \/ dLe(arg.freq, 0)
      [] OTHER -> FALSE

\* C9: a component constructor that receives a non-physical parameter fails
\* and produces no two-port, and no constructor returns a two-port with an
\* infinite or NaN entry.
C9_NonPhysicalRejected ==
    op \in LumpedConstructors =>
        /\ non_physical => (pc = "raised" /\ err.type = InvalidArgument /\ ret = None)
        /\ pc = "returned" => two_port_is_finite(ret)

-----------------------------------------------------------------------------
(* Properties of the Smith-chart generators *)

\* Every float of the sequence is a number in [-1, 1].
InUnitRange(points) ==
    \A k \in 1..Len(points) : -FloatRes <= points[k] /\ points[k] <= FloatRes

FlatModes ==
    {"generate_sweep_points_builder", "generate_sweep_points_network",
     "generate_monte_carlo_points", "impedances_to_smith_points", "generate_from_s11_data"}

StreamModes ==
    {"generate_frequency_sweep_stream", "generate_component_sweep_stream",
     "generate_monte_carlo_stream", "generate_animated_sweep"}

RefiningModes ==
    {"generate_sweep_points_builder", "generate_from_s11_data",
     "generate_frequency_sweep_stream"}

\* C1: every float a flat-vector mode has emitted, in the vector under
\* construction and in the vector returned, interpolated points included,
\* lies in [-1, 1], whatever the impedance or reflection coefficient was.
C1_FlatPointsInUnitRange ==
    op \in FlatModes =>
        /\ pc = "loop" => InUnitRange(out)
        /\ pc = "returned" => InUnitRange(ret)

\* A builder sweep over negative resistances (reflection coefficients 3 and
\* infinite) has returned, interpolated points included.
C1_Witness ==
    /\ op = "generate_sweep_points_builder" /\ pc = "returned"
    /\ arg.network_builder.kind = "series_resistor_minus"
    /\ arg.frequencies.num_points = 2
    /\ Len(ret) > 2 * arg.frequencies.num_points

\* C2: every coordinate stored in a point stream of the enhanced generator,
\* and every vertex coordinate of generate_2d_mesh, lies in [-1, 1].
C2_StreamPointsInUnitRange ==
    /\ op \in StreamModes =>
          /\ pc = "loop" => InUnitRange(out.points)
          /\ pc = "returned" => InUnitRange(ret.points)
    /\ op = "generate_2d_mesh" =>
          /\ pc = "loop" => InUnitRange(out.vertices)
          /\ pc = "returned" => InUnitRange(ret.vertices)

\* The floats emitted so far by the call in progress.
EmittedFloats(result) ==
    IF op = "generate_frequency_sweep_stream" THEN Len(result.points) ELSE Len(result)

\* C3: a round of a refining mode emits the sweep point and at most 20
\* interpolated points before it (two floats each).
C3_AtMost20Interpolated ==
    [][(op \in RefiningModes /\ pc = "loop" /\ pc' = "loop")
           => EmittedFloats(out') - EmittedFloats(out) <= 2 * (20 + 1)]_vars

\* The S11 passthrough has emitted a second point with exactly 20 interpolated
\* points before it.
C3_Witness ==
    /\ op = "generate_from_s11_data" /\ pc = "loop" /\ i = 2
    /\ Len(out) = 2 * (1 + 20 + 1)

\* |1 - gamma| of the call's reflection coefficient
one_minus_gamma_magnitude == cAbs(Cx(dSub(Scale, arg.reflection.re), dNeg(arg.reflection.im)))

\* C10: reflection_to_impedance fails with Singular when |1 - gamma| is below
\* 1e-20, and returns no impedance then.
C10_ReflectionToImpedanceSingular ==
    (op = "reflection_to_impedance" /\ below_1e_20(one_minus_gamma_magnitude))
        => (pc = "raised" /\ err.type = Singular)

-----------------------------------------------------------------------------
(* Properties of the S-parameter conversion *)

SConversions == {"to_s_parameters", "to_s_parameters_real"}

\* A conversion of a two-port that is_reciprocal() accepts has returned
\* finite S12 and S21.
reciprocal_converted ==
    /\ op \in SConversions /\ pc = "returned"
    /\ is_reciprocal(arg.n, DEFAULT_TOLERANCE)
    /\ cIsFinite(ret.s12) /\ cIsFinite(ret.s21)

\* |re| + |im|, in grid units
cNorm1(x) == Abs(x.re) + Abs(x.im)

\* |det - 1| * |S21| and the rounding of the two quotients, times Scale:
\* S12 is det * S21 up to one rounding unit in each part of each quotient.
s12_s21_gap_scaled ==
    cNorm1(cSubReal(determinant(arg.n), Scale)) * (cNorm1(ret.s21) + 2) + 2 * Scale

\* C17 as stated: for a reciprocal two-port (determinant 1 within the
\* tolerance) whose conversion succeeds, S12 = S21 within 1e-10.
C17_ReciprocalS12EqualsS21 ==
    (op \in SConversions /\ pc = "returned" /\ is_reciprocal(arg.n, DEFAULT_TOLERANCE))
        => cWithin(ret.s12, ret.s21, DEFAULT_TOLERANCE)

\* C17: S12 is det * S21.  For a two-port that is_reciprocal() accepts, S12
\* and S21 differ by |det - 1| * |S21| up to rounding, and are equal when the
\* determinant is exactly 1.
C17_S12IsDetTimesS21 ==
    reciprocal_converted =>
        /\ Abs(ret.s12.re - ret.s21.re) * Scale < s12_s21_gap_scaled
        /\ Abs(ret.s12.im - ret.s21.im) * Scale < s12_s21_gap_scaled
        /\ determinant(arg.n) = CxOne => ret.s12 = ret.s21

\* A network of three resistors with determinant exactly 1 has been
\* converted: S12 = S21, different from 0.
C17_Witness ==
    /\ reciprocal_converted
    /\ determinant(arg.n) = CxOne
    /\ arg.n.b # CxZero /\ arg.n.c # CxZero
    /\ ret.s21 # CxZero

SRoundTrips == {"s_round_trip", "s_round_trip_real"}

\* Both conversions have returned, and |S21| is above 1e-20.
round_trip_returned ==
    /\ op \in SRoundTrips /\ pc = "returned"
    /\ dLe(1, cAbs(ret.s.s21))

\* No operation of n.to_s_parameters(z0) rounds: b / z0, c * z0, the
\* determinant, and the four quotients by the denominator den.
to_s_is_exact(n, z0, b_z0, c_z0, den) ==
    /\ cDivExact(n.b, z0) /\ cMulExact(n.c, z0)
    /\ determinant_is_exact(n)
    /\ cIsFinite(den)
    /\ cDivExact(cSub(cSub(cAdd(n.a, b_z0), c_z0), n.d), den)
    /\ cDivExact(cScale(2 * Scale, determinant(n)), den)
    /\ cDivExact(CxReal(2 * Scale), den)
    /\ cDivExact(cAdd(cSub(cAdd(cNeg(n.a), b_z0), c_z0), n.d), den)

\* No operation of from_s_parameters(s, z0) rounds: the five products of
\* the numerators, the four quotients, and the products with z0.
from_s_is_exact(s, z0) ==
    /\ cMulExact(cAddReal(s.s11, Scale), cRealSub(Scale, s.s22))
    /\ cMulExact(cAddReal(s.s11, Scale), cAddReal(s.s22, Scale))
    /\ cMulExact(cRealSub(Scale, s.s11), cRealSub(Scale, s.s22))
    /\ cMulExact(cRealSub(Scale, s.s11), cAddReal(s.s22, Scale))
    /\ cMulExact(s.s12, s.s21)
    /\ cDivExact(from_s_numerator_a(s), from_s_denominator(s))
    /\ cDivExact(from_s_numerator_b(s), from_s_denominator(s))
    /\ cMulExact(z0, cDiv(from_s_numerator_b(s), from_s_denominator(s)))
    /\ cMulExact(from_s_denominator(s), z0)
    /\ cDivExact(from_s_numerator_c(s), cMul(from_s_denominator(s), z0))
    /\ cDivExact(from_s_numerator_d(s), from_s_denominator(s))

\* Neither conversion of the returned round trip rounded.
round_trip_is_exact ==
    /\ to_s_is_exact(arg.n, arg.z0, cDiv(arg.n.b, arg.z0), cMul(arg.n.c, arg.z0),
                     cAdd(cAdd(cAdd(arg.n.a, cDiv(arg.n.b, arg.z0)),
                               cMul(arg.n.c, arg.z0)), arg.n.d))
    /\ from_s_is_exact(ret.s, arg.z0)

\* C18 as stated: when both conversions succeed and |S21| > 1e-20,
\* from_s_parameters(n.to_s_parameters(z0), z0) equals n entry for entry
\* within 1e-10, for real and complex z0.
C18_RoundTripWithinTolerance ==
    round_trip_returned => two_port_within(ret.converted, arg.n, DEFAULT_TOLERANCE)

\* C18: the round trip through the S-parameters gives the two-port back up
\* to rounding: entry for entry when no operation of the two conversions
\* rounds, for real and complex z0.
C18_RoundTripExact ==
    (round_trip_returned /\ round_trip_is_exact) => ret.converted = arg.n

\* A series or shunt element has gone through the S-parameters of the
\* complex reference impedance 1 + j and back without rounding.
C18_Witness ==
    /\ round_trip_returned /\ round_trip_is_exact
    /\ arg.n # identity_two_port
    /\ arg.z0.im # 0
    /\ ret.s.s11 # CxZero

-----------------------------------------------------------------------------
(* Properties of the cascade *)

\* Every product of tp1 * tp2 is exact, and every sum in range.
cascade_is_exact(tp1, tp2) ==
    /\ cMulExact(tp1.a, tp2.a) /\ cMulExact(tp1.b, tp2.c)
    /\ cMulExact(tp1.a, tp2.b) /\ cMulExact(tp1.b, tp2.d)
    /\ cMulExact(tp1.c, tp2.a) /\ cMulExact(tp1.d, tp2.c)
    /\ cMulExact(tp1.c, tp2.b) /\ cMulExact(tp1.d, tp2.d)
    /\ two_port_is_finite(cascade(tp1, tp2))

\* max |re| + |im| over the entries of a finite two-port, in grid units
entry_magnitude(n) ==
    CHOOSE m \in {Abs(e.re) + Abs(e.im) : e \in {n.a, n.b, n.c, n.d}} :
        \A e \in {n.a, n.b, n.c, n.d} : Abs(e.re) + Abs(e.im) <= m

\* The groupings of a returned t1 * t2 * t3 whose operands, intermediate
\* products and results are all finite.
finite_groupings ==
    /\ op = "cascade_groupings" /\ pc = "returned"
    /\ two_port_is_finite(arg.t1) /\ two_port_is_finite(arg.t2) /\ two_port_is_finite(arg.t3)
    /\ two_port_is_finite(cascade(arg.t1, arg.t2))
    /\ two_port_is_finite(cascade(arg.t2, arg.t3))
    /\ two_port_is_finite(ret.left) /\ two_port_is_finite(ret.right)

\* No product or sum of either grouping rounds.
exact_groupings ==
    /\ cascade_is_exact(arg.t1, arg.t2)
    /\ cascade_is_exact(cascade(arg.t1, arg.t2), arg.t3)
    /\ cascade_is_exact(arg.t2, arg.t3)
    /\ cascade_is_exact(arg.t1, cascade(arg.t2, arg.t3))

\* The rounding accumulated by the two groupings, times Scale.  A product of
\* doubles is off by less than one rounding unit, an entry of t1 * t2 (four
\* real products per part) by less than 4; multiplied by the entries of t3
\* and summed over two terms that is 8 * |t3|, and the products of the
\* second cascade add 4 more; likewise 8 * |t1| + 4 for the other grouping.
groupings_rounding_scaled == 8 * (entry_magnitude(arg.t1) + entry_magnitude(arg.t3)) + 8 * Scale

\* Two complex numbers differ by less than the accumulated rounding.
cWithinRounding(x, y) ==
    /\ Abs(x.re - y.re) * Scale < groupings_rounding_scaled
    /\ Abs(x.im - y.im) * Scale < groupings_rounding_scaled

\* C14 as stated: (t1 * t2) * t3 and t1 * (t2 * t3) agree entry for entry
\* within 1e-10, whatever the three ABCD matrices are.
C14_AssociativeWithinTolerance ==
    (op = "cascade_groupings" /\ pc = "returned")
        => two_port_within(ret.left, ret.right, DEFAULT_TOLERANCE)

\* C14: the cascade is associative up to rounding.  When operands, products
\* and results are finite, the two groupings differ entry for entry by less
\* than the rounding their products accumulate, which grows with the entries
\* of t1 and t3; they are equal when no product or sum rounds.
C14_AssociativeUpToRounding ==
    finite_groupings =>
        /\ cWithinRounding(ret.left.a, ret.right.a)
        /\ cWithinRounding(ret.left.b, ret.right.b)
        /\ cWithinRounding(ret.left.c, ret.right.c)
        /\ cWithinRounding(ret.left.d, ret.right.d)
        /\ exact_groupings => ret.left = ret.right

\* Three different two-ports, none the identity, have been cascaded without
\* rounding, and the product is not diagonal.
C14_Witness ==
    /\ finite_groupings /\ exact_groupings
    /\ Cardinality({arg.t1, arg.t2, arg.t3, identity_two_port}) = 4
    /\ ret.left.b # CxZero /\ ret.left.c # CxZero

\* C15: the identity two-port, default-constructed or from
\* identity_two_port(), is a two-sided unit of the cascade: id * t and t * id
\* equal t entry for entry within 1e-12 (below one grid unit), for every
\* two-port t.
C15_IdentityIsUnit ==
    (op = "identity_cascade" /\ pc = "returned")
        => /\ two_port_within(ret.left, arg.t, 1)
           /\ two_port_within(ret.right, arg.t, 1)

\* The chain after the first k of the elements
RECURSIVE chain_of(_, _)
chain_of(elements, k) ==
    IF k = 0 THEN identity_two_port
    ELSE cascade_in_place(chain_of(elements, k - 1), elements[k])

\* No product or sum rounded while the elements were cascaded.
chain_is_exact(elements) ==
    \A k \in 1..Len(elements) : cascade_is_exact(chain_of(elements, k - 1), elements[k])

-----------------------------------------------------------------------------
(* Properties of the reflection coefficient conversions *)

\* The round trip of a finite impedance other than -z0 has returned.
reflection_round_trip_returned ==
    /\ op = "reflection_round_trip" /\ pc = "returned"
    /\ cIsFinite(arg.z_original)
    /\ arg.z_original # CxReal(-arg.z0)

\* Neither conversion rounded: the quotient (z - z0) / (z + z0), the product
\* z0 (1 + gamma) and its quotient by 1 - gamma.
reflection_round_trip_is_exact ==
    /\ cDivExact(cSub(arg.z_original, CxReal(arg.z0)), cAdd(arg.z_original, CxReal(arg.z0)))
    /\ cMulExact(CxReal(arg.z0), cAddReal(ret.gamma, Scale))
    /\ cDivExact(cMul(CxReal(arg.z0), cAddReal(ret.gamma, Scale)), cRealSub(Scale, ret.gamma))

\* C19 as stated: for every finite impedance z other than -z0,
\* reflection_to_impedance(impedance_to_reflection(z, z0), z0) equals z
\* within 1e-10.
C19_ReflectionRoundTripWithinTolerance ==
    reflection_round_trip_returned
        => cWithin(ret.z_recovered, arg.z_original, DEFAULT_TOLERANCE)

\* C19: the round trip through the reflection coefficient gives a finite
\* impedance other than -z0 back up to rounding: exactly when neither
\* conversion rounds.
C19_ReflectionRoundTripExact ==
    (reflection_round_trip_returned /\ reflection_round_trip_is_exact)
        => ret.z_recovered = arg.z_original

\* A complex impedance off the unit circle's centre has made the round trip
\* without rounding.
C19_Witness ==
    /\ reflection_round_trip_returned /\ reflection_round_trip_is_exact
    /\ arg.z_original.im # 0 /\ arg.z_original.re # 0
    /\ ret.gamma # CxZero

-----------------------------------------------------------------------------
(* Properties of the single-network mode of generate_sweep_points *)

\* The points the single-network mode owes: the clamped reflection coefficient
\* of the network's input impedance, once per frequency sample.
RECURSIVE same_point_times(_, _)
same_point_times(gamma, n) ==
    IF n = 0 THEN <<>> ELSE add_point_to_vector(gamma, same_point_times(gamma, n - 1))

single_network_returned ==
    /\ op \in {"generate_sweep_points_network", "generate_sweep_points_network_once"}
    /\ pc = "returned"

\* C20: in the single two-port + frequency sweep mode, generate_sweep_points
\* emits exactly N points (2 N floats) for a sweep of N frequency samples, all
\* of them the same reflection coefficient, without refinement, whatever the
\* adaptive setting.
C20_SameGammaPerSample ==
    single_network_returned =>
        \E z_in \in {input_impedance(arg.network, arg.load_impedance)} :
            /\ Len(ret) = 2 * Len(get_frequencies(arg.frequencies))
            /\ ret = same_point_times(impedance_to_reflection(z_in.val, arg.z0_reference),
                                      Len(get_frequencies(arg.frequencies)))

-----------------------------------------------------------------------------
(* Properties of the refining modes with adaptive sampling off *)

\* The clamped points of the first n reflection coefficients of a list, one
\* point each.
RECURSIVE one_point_each(_, _)
one_point_each(gammas, n) ==
    IF n = 0 THEN <<>> ELSE add_point_to_vector(gammas[n], one_point_each(gammas, n - 1))

\* The reflection coefficient the builder mode computes for a frequency.
builder_gamma(a, freq) ==
    impedance_to_reflection(
        input_impedance(network_builder(a.network_builder, freq).val, a.load_impedance).val,
        a.z0_reference)

builder_gammas(a) ==
    [k \in 1..Len(get_frequencies(a.frequencies)) |->
        builder_gamma(a, get_frequencies(a.frequencies)[k])]

\* The reflection coefficients of the input samples of the running call.
sample_gammas ==
    IF op = "generate_from_s11_data" THEN arg.s11_data ELSE builder_gammas(arg)

uniform_call ==
    /\ op \in {"generate_sweep_points_builder", "generate_from_s11_data"}
    /\ ~m_config.adaptive_sampling

\* C21: with adaptive = false, the builder-sweep mode and the S11-passthrough
\* mode emit exactly one point per input sample (2 N floats for N samples) and
\* no interpolated point: after i rounds the output is the clamped points of
\* the first i samples, and the returned vector those of all N.
C21_UniformOnePointPerSample ==
    /\ (uniform_call /\ pc = "loop") =>
           /\ Len(out) = 2 * i
           /\ out = one_point_each(sample_gammas, i)
    /\ (uniform_call /\ pc = "returned") =>
           /\ Len(ret) = 2 * Len(sample_gammas)
           /\ ret = one_point_each(sample_gammas, Len(sample_gammas))

\* A call with adaptive = false has returned MaxPoints points although its
\* first two samples lie further apart than the spacing.
C21_Witness ==
    /\ uniform_call /\ pc = "returned"
    /\ Len(sample_gammas) = MaxPoints
    /\ Len(ret) = 2 * MaxPoints
    /\ should_interpolate(sample_gammas[1], sample_gammas[2])

\* C22: for the series-L * shunt-C resonator swept around its resonance,
\* generate_sweep_points called with the cascaded two_port value returns
\* strictly more floats from the generator with adaptive sampling than from
\* the one without.
C22_AdaptiveEmitsMore ==
    (op = "AdaptiveSampling" /\ pc = "returned" /\ arg.frequencies.num_points = MaxPoints)
        => Len(ret.points_uniform) < Len(ret.points_adaptive)

-----------------------------------------------------------------------------
(* Properties of the Monte-Carlo draws *)

\* The calls of generate_samples made so far, with their results.
sampler_calls == IF op = "monte_carlo_sampler" /\ pc = "loop" THEN out ELSE <<>>

in_tolerance_range(value, nominal, tolerance) ==
    /\ dLe(dMul(nominal, dSub(Scale, tolerance)), value)
    /\ dLe(value, dMul(nominal, dAdd(Scale, tolerance)))

\* C23: every Gaussian sample of a component with nominal mu > 0 and tolerance
\* t >= 0 lies in [mu (1 - t), mu (1 + t)], in generate_samples and in
\* generate_value.
C23_GaussianWithinTolerance ==
    /\ \A c \in 1..Len(sampler_calls) :
           sampler_calls[c].component.distribution = "GAUSSIAN" =>
               \A n \in 1..Len(sampler_calls[c].samples) :
                   in_tolerance_range(sampler_calls[c].samples[n],
                                      sampler_calls[c].component.nominal_value,
                                      dDiv(sampler_calls[c].component.tolerance_percent,
                                           100 * Scale))
    /\ (op = "generate_value" /\ pc = "returned" /\ arg.comp.distribution = "GAUSSIAN")
           => in_tolerance_range(ret, arg.comp.nominal_value, arg.comp.tolerance)

above_floor(value, nominal) == dLt(0, value) /\ dLe(dMul(nominal, Pct(1)), value)

\* C24: every value drawn for a physical component with nominal mu > 0, under
\* any distribution and any tolerance t >= 0, is strictly positive and not
\* below 0.01 mu, in generate_samples and in generate_value, whose values
\* analyze uses.
C24_SamplesAboveFloor ==
    /\ \A c \in 1..Len(sampler_calls) :
           \A n \in 1..Len(sampler_calls[c].samples) :
               above_floor(sampler_calls[c].samples[n], sampler_calls[c].component.nominal_value)
    /\ (op = "generate_value" /\ pc = "returned")
           => above_floor(ret, arg.comp.nominal_value)

\* The calls made on one sampler, in order.
calls_on(k) == SelectSeq(sampler_calls, LAMBDA call : call.sampler = k)

same_requests(h1, h2, n) ==
    \A c \in 1..n : /\ h1[c].component = h2[c].component
                     /\ h1[c].num_samples = h2[c].num_samples

\* C25: two samplers built with the same seed and given the same sequence of
\* generate_samples calls return identical sequences, however the calls on
\* the two are interleaved.
C25_SamplesDependOnOwnHistory ==
    (op = "monte_carlo_sampler" /\ pc = "loop" /\ arg.seeds[1] = arg.seeds[2]) =>
        \A n \in 1..Len(calls_on(1)) :
            (n <= Len(calls_on(2)) /\ same_requests(calls_on(1), calls_on(2), n))
                => calls_on(1)[n].samples = calls_on(2)[n].samples

-----------------------------------------------------------------------------
(* Properties of analyze_temperature *)

temperature_returned == op = "analyze_temperature" /\ pc = "returned"

\* C26: analyze_temperature on an analyzer with M samples and T_steps
\* temperature steps runs ceil(M / T_steps) samples at each temperature: the
\* aggregate holds T_steps * ceil(M / T_steps) impedances, at least M.
C26_CeilSamplesPerTemperature ==
    (temperature_returned /\ arg.temp_steps > 0) =>
        /\ \A t \in 1..Len(loc.finished) :
               Len(loc.finished[t].impedances) = CeilDiv(arg.m_num_samples, arg.temp_steps)
        /\ Len(ret.impedances) = arg.temp_steps * CeilDiv(arg.m_num_samples, arg.temp_steps)
        /\ Len(ret.impedances) >= arg.m_num_samples

\* The S-parameters of every aggregated sample, in the order of the impedances.
RECURSIVE aggregated_s_params(_, _)
aggregated_s_params(finished, t) ==
    IF t = 0 THEN <<>> ELSE aggregated_s_params(finished, t - 1) \o finished[t].s_params

\* C27: the result of analyze_temperature carries statistics recomputed over
\* all concatenated samples: mean and standard deviation over every aggregated
\* impedance, and yield_rate = 100 * (aggregated samples with VSWR < 2) /
\* (aggregated samples).
C27_AggregateStatistics ==
    (temperature_returned /\ Len(ret.impedances) > 0) =>
        \E n \in {Len(ret.impedances)} :
        \E mean \in {cDivReal(sum_impedances(ret.impedances, n), n * Scale)} :
        \E variance \in {cDivReal(sum_squares(ret.impedances, mean, n), (n - 1) * Scale)} :
            /\ ret.mean_impedance = mean
            /\ ret.std_impedance = Cx(dSqrt(variance.re), dSqrt(variance.im))
            /\ ret.yield_rate =
                   dDiv(100 * Scale * pass_count(aggregated_s_params(loc.finished,
                                                                    Len(loc.finished)),
                                                 n),
                        n * Scale)

-----------------------------------------------------------------------------
(* Properties of generate_2d_mesh *)

\* The component value of column c (from 0).
mesh_component_value(a, c) ==
    dAdd(a.component_min,
         dMul(dDiv(c * Scale, size_minus_1(a.component_steps)),
              dSub(a.component_max, a.component_min)))

\* The reflection coefficient of the vertex in row r and column c (from 0).
mesh_gamma(a, r, c) ==
    impedance_to_reflection(
        input_impedance(network_builder2(a.network_builder, get_frequencies(a.frequencies)[r + 1],
                                         mesh_component_value(a, c)).val,
                        a.load_impedance).val,
        a.z0_reference)

\* The six indices of the cell in row r and column c of a grid of C columns.
mesh_cell(r, c, C) ==
    <<r * C + c, r * C + c + 1, (r + 1) * C + c,
      r * C + c + 1, (r + 1) * C + c + 1, (r + 1) * C + c>>

mesh_returned(R, C) ==
    /\ op = "generate_2d_mesh" /\ pc = "returned"
    /\ arg.frequencies.num_points = R /\ arg.component_steps = C

\* C28: for R >= 1 rows and C >= 1 component steps, generate_2d_mesh emits
\* exactly R C vertices (2 R C floats) in row-major order, exactly R C values,
\* and exactly 2 (R - 1) (C - 1) triangles, listed per cell as (i00, i01, i10)
\* then (i01, i11, i10), every index below R C.
C28_MeshCounts ==
    \A R \in 1..MaxPoints, C \in 1..MaxPoints :
        mesh_returned(R, C) =>
            /\ Len(ret.vertices) = 2 * R * C
            /\ Len(ret.values) = R * C
            /\ Len(ret.indices) = 3 * (2 * (R - 1) * (C - 1))
            /\ \A r \in 0..(R - 1), c \in 0..(C - 1) :
                   /\ ret.values[r * C + c + 1] = static_cast_float(mesh_component_value(arg, c))
                   /\ ret.vertices[2 * (r * C + c) + 1] = static_cast_float(mesh_gamma(arg, r, c).re)
                   /\ ret.vertices[2 * (r * C + c) + 2] = static_cast_float(mesh_gamma(arg, r, c).im)
            /\ \A r \in 0..(R - 2), c \in 0..(C - 2) :
                   SubSeq(ret.indices, 6 * (r * (C - 1) + c) + 1, 6 * (r * (C - 1) + c) + 6)
                       = mesh_cell(r, c, C)
            /\ \A k \in 1..Len(ret.indices) : ret.indices[k] >= 0 /\ ret.indices[k] < R * C

\* A grid of MaxPoints rows and MaxPoints columns has been returned, with
\* triangles.
C28_Witness ==
    /\ mesh_returned(MaxPoints, MaxPoints)
    /\ Len(ret.indices) = 6 * (MaxPoints - 1) * (MaxPoints - 1)
    /\ Len(ret.indices) > 0

\* C30: generate_2d_mesh terminates and emits an empty triangle list when the
\* grid is degenerate (the sweep has 0 points or component_steps is 0): once
\* the vertex loops are done the call has returned, without indices.
C30_DegenerateMeshEmpty ==
    (/\ op = "generate_2d_mesh"
     /\ arg.frequencies.num_points = 0 \/ arg.component_steps = 0
     /\ pc # "loop")
        => pc = "returned" /\ ret.indices = <<>>

-----------------------------------------------------------------------------
(* Properties of the in-place cascade *)

\* C29: a *= b leaves a equal to the pure product a * b of the values before
\* the call and leaves b unchanged, also when the right operand is a itself.
C29_InPlaceEqualsPure ==
    (op = "InPlaceCascade" /\ pc = "returned") =>
        /\ ret.a = cascade(arg.a, IF arg.other = "a" THEN arg.a ELSE arg.b)
        /\ ret.b = arg.b

\* a *= a has returned for a series resistor, which its square differs from.
C29_Witness ==
    /\ op = "InPlaceCascade" /\ pc = "returned"
    /\ arg.other = "a" /\ arg.a = series_resistor(Scale) /\ arg.b # arg.a
    /\ ret.a # arg.a

====
